---- MODULE Spec2Model ----
(***************************************************************************)
(* A model of hvicorn: the envelope classifier (utils/json_to_object.py),  *)
(* the dispatch engine, command router and session directory               *)
(* (bot/client.py: Bot.run, Bot._run_events, Bot._internal_handler) and    *)
(* the plugin manager (Bot.load_plugin, Bot.unload_plugin).                *)
(*                                                                         *)
(* Strings that the code takes apart (text, nick, command prefixes) are    *)
(* sequences of one-character strings.  Strings that the code only         *)
(* compares (cmd, type, exception names, handler names) are TLA+ strings.  *)
(***************************************************************************)
EXTENDS Integers, Sequences, FiniteSets, TLC

(***************************************************************************)
(* Python string operations used by the classifier and the command router. *)
(***************************************************************************)

\* s[i:] for a 0-based Python index i <= len(s)
Drop(s, i) == SubSeq(s, i + 1, Len(s))

\* s.startswith(p)
StartsWith(s, p) == Len(p) <= Len(s) /\ SubSeq(s, 1, Len(p)) = p

\* s.find(sub) + 1: the 1-based place of the first occurrence, 0 when none
Find(s, sub) ==
    LET hits == {i \in 1..(Len(s) - Len(sub) + 1) : SubSeq(s, i, i + Len(sub) - 1) = sub}
    IN  IF hits = {} THEN 0 ELSE CHOOSE i \in hits : \A j \in hits : i <= j

\* s.count(c) for a one-character c
Count(s, c) == Cardinality({i \in 1..Len(s) : s[i] = c})

\* s.split(sep, 1): one piece when sep does not occur, else two
Split1(s, sep) ==
    LET i == Find(s, sep)
    IN  IF i = 0 THEN <<s>>
        ELSE <<SubSeq(s, 1, i - 1), SubSeq(s, i + Len(sep), Len(s))>>

\* s.split(c) for a one-character c: every piece, the empty ones too
RECURSIVE SplitAll(_, _)
SplitAll(s, c) ==
    LET i == Find(s, <<c>>)
    IN  IF i = 0 THEN <<s>>
        ELSE <<SubSeq(s, 1, i - 1)>> \o SplitAll(SubSeq(s, i + 1, Len(s)), c)

\* str.isspace of one character
Whitespace == {" ", "\n", "\t"}

\* s.split(): the runs of non-whitespace characters
RECURSIVE SplitWs(_)
SplitWs(s) ==
    IF s = <<>> THEN <<>>
    ELSE IF Head(s) \in Whitespace THEN SplitWs(Tail(s))
    ELSE LET ends == {i \in 1..Len(s) : s[i] \in Whitespace}
             e == IF ends = {} THEN Len(s) + 1
                  ELSE CHOOSE i \in ends : \A j \in ends : i <= j
         IN  <<SubSeq(s, 1, e - 1)>> \o SplitWs(SubSeq(s, e, Len(s)))

\* string.ascii_letters + string.digits + "_"
NickChars ==
    {"a","b","c","d","e","f","g","h","i","j","k","l","m","n","o","p","q","r",
     "s","t","u","v","w","x","y","z","A","B","C","D","E","F","G","H","I","J",
     "K","L","M","N","O","P","Q","R","S","T","U","V","W","X","Y","Z",
     "0","1","2","3","4","5","6","7","8","9","_"}

MaxNickLen == 24

verifyNick(nick) ==
    IF Len(nick) > MaxNickLen THEN FALSE
    ELSE \A i \in 1..Len(nick) : nick[i] \in NickChars

\* "You are joining channels too fast. Wait a moment and try again."
RL_CHANNEL_TEXT ==
    <<"Y","o","u"," ","a","r","e"," ","j","o","i","n","i","n","g"," ","c",
      "h","a","n","n","e","l","s"," ","t","o","o"," ","f","a","s","t",".",
      " ","W","a","i","t"," ","a"," ","m","o","m","e","n","t"," ","a","n",
      "d"," ","t","r","y"," ","a","g","a","i","n",".">>

\* "You are changing colors too fast. Wait a moment before trying again."
RL_COLOR_TEXT ==
    <<"Y","o","u"," ","a","r","e"," ","c","h","a","n","g","i","n","g"," ",
      "c","o","l","o","r","s"," ","t","o","o"," ","f","a","s","t","."," ",
      "W","a","i","t"," ","a"," ","m","o","m","e","n","t"," ","b","e","f",
      "o","r","e"," ","t","r","y","i","n","g"," ","a","g","a","i","n",".">>

\* "You are sending invites too fast. Wait a moment before trying again."
RL_INVITE_TEXT ==
    <<"Y","o","u"," ","a","r","e"," ","s","e","n","d","i","n","g"," ","i",
      "n","v","i","t","e","s"," ","t","o","o"," ","f","a","s","t","."," ",
      "W","a","i","t"," ","a"," ","m","o","m","e","n","t"," ","b","e","f",
      "o","r","e"," ","t","r","y","i","n","g"," ","a","g","a","i","n",".">>

\* "You are changing nicknames too fast. Wait a moment before trying again."
RL_CHANGENICK_TEXT ==
    <<"Y","o","u"," ","a","r","e"," ","c","h","a","n","g","i","n","g"," ",
      "n","i","c","k","n","a","m","e","s"," ","t","o","o"," ","f","a","s",
      "t","."," ","W","a","i","t"," ","a"," ","m","o","m","e","n","t"," ",
      "b","e","f","o","r","e"," ","t","r","y","i","n","g"," ","a","g","a",
      "i","n",".">>

\* "You are sending too much text. Wait a moment and try again.\nPress the up arrow key to restore your last message."
RL_MESSAGE_TEXT ==
    <<"Y","o","u"," ","a","r","e"," ","s","e","n","d","i","n","g"," ","t",
      "o","o"," ","m","u","c","h"," ","t","e","x","t","."," ","W","a","i",
      "t"," ","a"," ","m","o","m","e","n","t"," ","a","n","d"," ","t","r",
      "y"," ","a","g","a","i","n",".","\n","P","r","e","s","s"," ","t","h",
      "e"," ","u","p"," ","a","r","r","o","w"," ","k","e","y"," ","t","o",
      " ","r","e","s","t","o","r","e"," ","y","o","u","r"," ","l","a","s",
      "t"," ","m","e","s","s","a","g","e",".">>

\* "You are rate-limited or blocked."
RL_GLOBAL_TEXT ==
    <<"Y","o","u"," ","a","r","e"," ","r","a","t","e","-","l","i","m","i",
      "t","e","d"," ","o","r"," ","b","l","o","c","k","e","d",".">>

\* "You have been denied access to that channel and have been moved somewhere else. Retry later or wait for a mod to move you."
LOCKROOM_TEXT ==
    <<"Y","o","u"," ","h","a","v","e"," ","b","e","e","n"," ","d","e","n",
      "i","e","d"," ","a","c","c","e","s","s"," ","t","o"," ","t","h","a",
      "t"," ","c","h","a","n","n","e","l"," ","a","n","d"," ","h","a","v",
      "e"," ","b","e","e","n"," ","m","o","v","e","d"," ","s","o","m","e",
      "w","h","e","r","e"," ","e","l","s","e","."," ","R","e","t","r","y",
      " ","l","a","t","e","r"," ","o","r"," ","w","a","i","t"," ","f","o",
      "r"," ","a"," ","m","o","d"," ","t","o"," ","m","o","v","e"," ","y",
      "o","u",".">>

\* "You whispered to"
WHISPERED_TO ==
    <<"Y","o","u"," ","w","h","i","s","p","e","r","e","d"," ","t","o">>

\* "is now"
IS_NOW ==
    <<"i","s"," ","n","o","w">>
(***************************************************************************)
(* The event taxonomy (models/server/*.py).  An envelope is a Python dict: *)
(* a function from the keys it holds to their values.  A package is        *)
(* [tag, f]: the class and the fields pydantic kept.  A pydantic model     *)
(* rejects a dict that lacks a required field or breaks a Literal; a field *)
(* with an alias is read from the alias key only.                          *)
(***************************************************************************)

ValidationError == [tag |-> "ValidationError"]
NoPackage == [tag |-> "NoPackage"]
NoAlias == <<>>

KeyOf(alias, fld) == IF fld \in DOMAIN alias THEN alias[fld] ELSE fld

\* BaseModel.__init__(**data)
BaseModel(tag, data, req, opt, alias, lit) ==
    IF /\ \A fld \in req : KeyOf(alias, fld) \in DOMAIN data
       /\ \A fld \in DOMAIN lit :
              KeyOf(alias, fld) \in DOMAIN data => data[KeyOf(alias, fld)] \in lit[fld]
    THEN [tag |-> tag,
          f   |-> [fld \in {x \in req \cup opt : KeyOf(alias, x) \in DOMAIN data}
                       |-> data[KeyOf(alias, fld)]]]
    ELSE ValidationError

UTypes == {"user", "mod", "admin"}

ChatPackage(data) ==
    BaseModel("ChatPackage", data,
              {"cmd", "channel", "level", "nick", "text", "time", "uType", "userid"},
              {"color", "trip", "customId"}, NoAlias,
              [cmd |-> {"chat"}, uType |-> UTypes])

EmotePackage(data) ==
    BaseModel("EmotePackage", data,
              {"channel", "cmd", "nick", "text", "content", "time", "userid"},
              {"trip"}, NoAlias, [cmd |-> {"emote"}])

InfoPackage(data) ==
    BaseModel("InfoPackage", data, {"cmd", "text"}, {}, NoAlias, [cmd |-> {"info"}])

InvitePackage(data) ==
    BaseModel("InvitePackage", data,
              {"channel", "cmd", "from_nick", "invite_channel", "text", "time",
               "to_userid", "type"},
              {}, [from_nick |-> "from", invite_channel |-> "inviteChannel"],
              [cmd |-> {"invite"}, type |-> {"invite"}])

OnlineAddPackage(data) ==
    BaseModel("OnlineAddPackage", data,
              {"cmd", "color", "hash", "isBot", "level", "nick", "time", "uType",
               "userid"},
              {"channel", "trip"}, NoAlias,
              [cmd |-> {"onlineAdd"}, uType |-> UTypes])

OnlineRemovePackage(data) ==
    BaseModel("OnlineRemovePackage", data, {"nick", "cmd", "time", "userid"}, {},
              NoAlias, [cmd |-> {"onlineRemove"}])

OnlineSetPackage(data) ==
    BaseModel("OnlineSetPackage", data, {"cmd", "channel", "nicks", "time", "users"},
              {}, NoAlias, [cmd |-> {"onlineSet"}])

UpdateUserPackage(data) ==
    BaseModel("UpdateUserPackage", data, {"cmd", "color"},
              {"channel", "hash", "isBot", "level", "nick", "time", "trip", "uType",
               "userid"},
              NoAlias, [cmd |-> {"updateUser"}, uType |-> UTypes])

WarnPackage(data) ==
    BaseModel("WarnPackage", data, {"cmd", "text"}, {}, NoAlias, [cmd |-> {"warn"}])

WhisperPackage(data) ==
    BaseModel("WhisperPackage", data,
              {"channel", "cmd", "nick", "text", "content", "time", "userid_to", "type"},
              {"trip"}, [nick |-> "from"],
              [cmd |-> {"info"}, type |-> {"whisper"}])

WhisperSentPackage(data) ==
    BaseModel("WhisperSentPackage", data,
              {"channel", "cmd", "userid_from", "text", "content", "time", "userid_to"},
              {"type"}, [userid_from |-> "from", userid_to |-> "to"],
              [cmd |-> {"info"}])

UpdateMessagePackage(data) ==
    BaseModel("UpdateMessagePackage", data,
              {"channel", "cmd", "customId", "level", "mode", "text", "time", "userid"},
              {}, NoAlias,
              [cmd |-> {"updateMessage"},
               mode |-> {"overwrite", "prepend", "append", "complete"}])

ChangeNickPackage(data) ==
    BaseModel("ChangeNickPackage", data,
              {"old_nick", "new_nick", "text", "cmd", "channel", "time"}, {}, NoAlias,
              [cmd |-> {"changenick"}])

CaptchaPackage(data) ==
    BaseModel("CaptchaPackage", data, {"channel", "cmd", "text", "time"}, {}, NoAlias,
              [cmd |-> {"captcha"}])

\* LockroomPackage(cmd="info", time=...)
LockroomPackage(time) == [tag |-> "LockroomPackage", f |-> [cmd |-> "info", time |-> time]]

\* RateLimitedPackage(cmd="warn", type=..., text=...)
RateLimitedPackage(type, text) ==
    [tag |-> "RateLimitedPackage", f |-> [cmd |-> "warn", type |-> type, text |-> text]]

\* a catch-all package that keeps only the cmd of the envelope
UncatchedPackageCmdOnly(data) ==
    [tag |-> "UncatchedPackage", f |-> [rawjson |-> [cmd |-> data["cmd"]]]]

\* UncatchedPackage(rawjson=data)
UncatchedPackage(data) == [tag |-> "UncatchedPackage", f |-> [rawjson |-> data]]

PackageTags ==
    {"ChatPackage", "EmotePackage", "InfoPackage", "InvitePackage", "OnlineAddPackage",
     "OnlineRemovePackage", "OnlineSetPackage", "UpdateUserPackage", "WarnPackage",
     "WhisperPackage", "UpdateMessagePackage", "ChangeNickPackage", "CaptchaPackage",
     "LockroomPackage", "WhisperSentPackage", "UncatchedPackage", "RateLimitedPackage"}

(***************************************************************************)
(* json_to_object.  The result is [exc, pkg, data]: the exception raised   *)
(* ("none" when it returns), the package returned, and the caller's dict   *)
(* as the call leaves it (the function writes into the dict it is given).  *)
(***************************************************************************)

Return(pkg, data) == [exc |-> "none", pkg |-> pkg, data |-> data]
Raise(exc, data) == [exc |-> exc, pkg |-> NoPackage, data |-> data]

\* return Model(**data): pydantic raises ValidationError on a bad dict
Construct(pkg, data) ==
    IF pkg.tag = "ValidationError" THEN Raise("ValidationError", data) ELSE Return(pkg, data)

\* dict with d[k] = v
Put(d, k, v) == [x \in DOMAIN d \cup {k} |-> IF x = k THEN v ELSE d[x]]
\* dict after del d[k]
Del(d, k) == [x \in DOMAIN d \ {k} |-> d[x]]
\* d.get("text", "")
GetText(d) == IF "text" \in DOMAIN d THEN d["text"] ELSE <<>>
\* not d.get(k), for the string-valued keys cmd and type
Falsy(d, k) == k \notin DOMAIN d \/ d[k] = ""

RL_MAPPING_KEYS ==
    {RL_CHANNEL_TEXT, RL_COLOR_TEXT, RL_CHANGENICK_TEXT, RL_MESSAGE_TEXT, RL_GLOBAL_TEXT}

RL_MAPPING(text) ==
    CASE text = RL_CHANNEL_TEXT -> "CHANNEL_RL"
      [] text = RL_COLOR_TEXT -> "COLOR_RL"
      [] text = RL_CHANGENICK_TEXT -> "CHANGENICK_RL"
      [] text = RL_MESSAGE_TEXT -> "MESSAGE_RL"
      [] text = RL_GLOBAL_TEXT -> "GLOBAL_RL"

\* the list the warn branch tests the text against
RL_WARN_TEXTS ==
    {RL_CHANNEL_TEXT, RL_COLOR_TEXT, RL_INVITE_TEXT, RL_CHANGENICK_TEXT,
     RL_MESSAGE_TEXT, RL_GLOBAL_TEXT}

\* elif command == "emote"
ClassifyEmote(data) ==
    IF "text" \notin DOMAIN data THEN Raise("KeyError", data)
    ELSE LET parts == Split1(data["text"], <<" ">>)
         IN  IF Len(parts) < 2 THEN Raise("IndexError", data)
             ELSE LET d2 == Put(data, "content", parts[2])
                  IN  Construct(EmotePackage(d2), d2)

\* the nickname-change test of the info branch; "IndexError" when split()[3]
\* does not exist
IsChangeNick(text) ==
    IF Count(text, " ") # 3 THEN "no"
    ELSE IF ~StartsWith(Split1(text, <<" ">>)[2], IS_NOW) THEN "no"
    ELSE IF Len(SplitWs(text)) < 1 THEN "IndexError"
    ELSE IF ~verifyNick(SplitWs(text)[1]) THEN "no"
    ELSE IF Len(SplitWs(text)) < 4 THEN "IndexError"
    ELSE IF ~verifyNick(SplitWs(text)[4]) THEN "no"
    ELSE "yes"

\* elif command == "info", not data.get("type")
ClassifyPlainInfo(data) ==
    LET text == GetText(data)
        m == IsChangeNick(text)
    IN  IF m = "IndexError" THEN Raise("IndexError", data)
        ELSE IF m = "yes"
        THEN LET d2 == Put(Put(data, "old_nick", SplitAll(text, " ")[1]),
                           "new_nick", SplitAll(text, " ")[4])
             IN  Construct(ChangeNickPackage(d2), d2)
        ELSE IF text = LOCKROOM_TEXT
        THEN IF "time" \in DOMAIN data
             THEN Return(LockroomPackage(data["time"]), data)
             ELSE Raise("KeyError", data)
        ELSE Construct(InfoPackage(data), data)

\* elif data.get("type") == "whisper"
ClassifyWhisper(data) ==
    IF StartsWith(GetText(data), WHISPERED_TO)
    THEN LET parts == Split1(data["text"], <<":", " ">>)
         IN  IF Len(parts) < 2 THEN Raise("IndexError", data)
             ELSE LET d2 == Put(data, "content", parts[2])
                  IN  Construct(WhisperSentPackage(d2), d2)
    ELSE IF "to" \notin DOMAIN data THEN Raise("KeyError", data)
    ELSE LET d2 == Del(Put(data, "userid_to", data["to"]), "to")
         IN  IF "text" \notin DOMAIN d2 THEN Raise("KeyError", d2)
             ELSE LET parts == Split1(d2["text"], <<":", " ">>)
                  IN  IF Len(parts) < 2 THEN Raise("IndexError", d2)
                      ELSE LET d3 == Put(d2, "content", parts[2])
                           IN  Construct(WhisperPackage(d3), d3)

\* elif data.get("type") == "invite"
ClassifyInvite(data) ==
    IF "from" \notin DOMAIN data THEN Raise("KeyError", data)
    ELSE LET d2 == Put(data, "from_nick", data["from"])
         IN  IF "to" \notin DOMAIN d2 THEN Raise("KeyError", d2)
             ELSE LET d3 == Del(Del(Put(d2, "to_userid", d2["to"]), "from"), "to")
                  IN  Construct(InvitePackage(d3), d3)

\* elif command == "warn"
ClassifyWarn(data) ==
    IF "text" \in DOMAIN data /\ data["text"] \in RL_WARN_TEXTS
    THEN IF data["text"] \in RL_MAPPING_KEYS
         THEN Return(RateLimitedPackage(RL_MAPPING(data["text"]), data["text"]), data)
         ELSE Raise("KeyError", data)
    ELSE Construct(WarnPackage(data), data)

\* the if/elif chain over `command`, lines 131-219
ClassifyByCommand(data) ==
    LET command == data["cmd"]
    IN  CASE command = "chat" -> Construct(ChatPackage(data), data)
          [] command = "emote" -> ClassifyEmote(data)
          [] command = "info" ->
                 IF Falsy(data, "type") THEN ClassifyPlainInfo(data)
                 ELSE IF data["type"] = "whisper" THEN ClassifyWhisper(data)
                 ELSE IF data["type"] = "invite" THEN ClassifyInvite(data)
                 ELSE Return(UncatchedPackage(data), data)
          [] command = "onlineSet" -> Construct(OnlineSetPackage(data), data)
          [] command = "onlineAdd" -> Construct(OnlineAddPackage(data), data)
          [] command = "onlineRemove" -> Construct(OnlineRemovePackage(data), data)
          [] command = "updateUser" -> Construct(UpdateUserPackage(data), data)
          [] command = "updateMessage" -> Construct(UpdateMessagePackage(data), data)
          [] command = "captcha" -> Construct(CaptchaPackage(data), data)
          [] command = "warn" -> ClassifyWarn(data)
          [] OTHER -> Return(UncatchedPackage(data), data)

\* json_to_object that gives the catch-all package for an envelope without
\* `cmd` instead of raising
json_to_object_total(data) ==
    IF Falsy(data, "cmd") THEN Return(UncatchedPackage(data), data)
    ELSE ClassifyByCommand(data)

json_to_object(data) ==
    IF Falsy(data, "cmd") THEN Raise("ValueError", data)
    ELSE ClassifyByCommand(data)

(***************************************************************************)
(* The Bot (bot/client.py).  Handlers are named; a name in AsyncHandlers   *)
(* is a coroutine function (asyncio.iscoroutinefunction), any other is a   *)
(* plain function.  What a handler does when it runs (return, raise,       *)
(* await, never return) is its own code: an input of the step that runs    *)
(* it.                                                                     *)
(***************************************************************************)

VARIABLES
    event_functions,  \* Bot.event_functions: selector -> list of handlers
    commands,         \* Bot.commands: list of [prefix, fn], in dict order
    users,            \* Bot.users: the roster
    killed,           \* Bot.killed
    loaded_plugins,   \* Bot.loaded_plugins: plugin name -> [commands, handlers]
    mainpc,           \* where Bot.run is: "recv", "aexit", "aexit_exc", "returned", "raised", "hung"
    mainwait,         \* Bot.run is suspended in websocket.recv()
    maincancel,       \* the TaskGroup has cancelled the task running Bot.run
    aborting,         \* TaskGroup._aborting
    tasks,            \* the tasks of Bot.run's TaskGroup, in creation order
    ready,            \* the event loop's FIFO of runnable tasks (0 is Bot.run)
    events,           \* the packages dispatched so far, in order
    remaining,        \* frames the inbound stream still holds
    log,              \* history: handler calls, handler body starts, roster updates
    lastop,           \* history: the last plugin operation, the registry before it, the
                      \* registrations it made, and whether it raised to its caller
    nops,             \* history: registrations, loads and unloads made so far
    cl_data,          \* the dict handed to json_to_object
    cl_result,        \* what json_to_object gave for it
    cl_done,          \* json_to_object has been applied to cl_data
    nick_arg,         \* the string handed to verifyNick
    nick_ok,          \* what verifyNick gave for it
    nick_done,        \* verifyNick has been applied to nick_arg
    cl_again,         \* what json_to_object gave when called a second time with the dict
    cl_again_done,    \* json_to_object has been called a second time
    self_nick,        \* Bot.nick
    sent,             \* the payloads handed to websocket.send, in order
    loading           \* the load_plugin calls suspended in their init function

vars ==
    <<event_functions, commands, users, killed, loaded_plugins, mainpc, mainwait,
      maincancel, aborting, tasks, ready, events, remaining, log, lastop, nops,
      cl_data, cl_result, cl_done, nick_arg, nick_ok, nick_done, cl_again,
      cl_again_done, self_nick, sent, loading>>

botVars == <<event_functions, commands, users, killed, loaded_plugins>>
runVars == <<mainpc, mainwait, maincancel, aborting, tasks, ready, events, remaining, log>>
classifyVars == <<cl_data, cl_result, cl_done, cl_again, cl_again_done>>
callVars == <<self_nick, sent, loading>>
nickVars == <<nick_arg, nick_ok, nick_done>>
\* what Bot.run does not touch
otherVars ==
    <<lastop, nops, cl_data, cl_result, cl_done, nick_arg, nick_ok, nick_done, cl_again,
      cl_again_done, self_nick, sent, loading>>

GLOBAL == "__GLOBAL__"
INTERNAL == "_internal_handler"

\* asyncio.iscoroutinefunction(function)
AsyncHandlers == {INTERNAL, "async_fn", "cmd1", "cmd2"}
isAsync(fn) == fn \in AsyncHandlers

\* Bot.run(ignore_self=True)
ignore_self == TRUE

\* the nick Bot.__init__ is given
BotNick == <<"B">>

\* Bot.__init__(nick, channel): nothing sent, no load_plugin under way
CallIdle ==
    /\ self_nick = BotNick
    /\ sent = <<>>
    /\ loading = <<>>

\* no plugin operation has just been made
NoOp == [op |-> "none", name |-> "", pre |-> <<>>, ops |-> <<>>, raised |-> FALSE]

\* Bot.__init__
BotInit ==
    /\ event_functions = (GLOBAL :> <<INTERNAL>>)
    /\ commands = <<>>
    /\ users = <<>>
    /\ killed = FALSE
    /\ loaded_plugins = <<>>

(***************************************************************************)
(* Session Directory                                                       *)
(***************************************************************************)

UserFields ==
    {"channel", "color", "hash", "isBot", "isme", "level", "nick", "trip", "uType",
     "userid"}

\* get_user_by_nick giving the first user of the roster whatever the nick
UserIndexAny(us, nick) == IF us = <<>> THEN 0 ELSE 1

\* the index of the first user with that nick, 0 when none: get_user_by_nick
UserIndexByNick(us, nick) ==
    LET hits == {i \in 1..Len(us) : "nick" \in DOMAIN us[i] /\ us[i]["nick"] = nick}
    IN  IF hits = {} THEN 0 ELSE CHOOSE i \in hits : \A j \in hits : i <= j

\* list cut before its i-th element
RemoveFrom(s, i) == SubSeq(s, 1, i - 1)

\* list without its i-th element
RemoveAt(s, i) == SubSeq(s, 1, i - 1) \o SubSeq(s, i + 1, Len(s))

\* User(channel=event.channel, ..., isme=False, ...) of an OnlineAddPackage
UserOfOnlineAdd(pkg) ==
    [fld \in ((DOMAIN pkg.f \cap UserFields) \cup {"isme"}) |->
        IF fld = "isme" THEN FALSE ELSE pkg.f[fld]]

\* the located user replaced by the fields of the update
UpdateUserReplace(us, pkg) ==
    IF "nick" \notin DOMAIN pkg.f \/ pkg.f["nick"] = <<>> THEN us
    ELSE LET i == UserIndexByNick(us, pkg.f["nick"])
         IN  IF i = 0 THEN us
             ELSE [us EXCEPT ![i] =
                      [fld \in DOMAIN pkg.f \cap UserFields |-> pkg.f[fld]]]

\* the updated user added to the roster, the located one kept
UpdateUserAppend(us, pkg) ==
    IF "nick" \notin DOMAIN pkg.f \/ pkg.f["nick"] = <<>> THEN us
    ELSE LET i == UserIndexByNick(us, pkg.f["nick"])
         IN  IF i = 0 THEN us
             ELSE Append(us,
                      [fld \in DOMAIN us[i] \cup (DOMAIN pkg.f \cap UserFields) |->
                          IF fld \in DOMAIN pkg.f THEN pkg.f[fld] ELSE us[i][fld]])

\* the UpdateUserPackage branch: every field of the update that the user has,
\* that is set, and that differs, is written
UpdateUser(us, pkg) ==
    IF "nick" \notin DOMAIN pkg.f \/ pkg.f["nick"] = <<>> THEN us
    ELSE LET i == UserIndexByNick(us, pkg.f["nick"])
         IN  IF i = 0 THEN us
             ELSE [us EXCEPT ![i] =
                      [fld \in DOMAIN us[i] \cup (DOMAIN pkg.f \cap UserFields) |->
                          IF fld \in DOMAIN pkg.f THEN pkg.f[fld] ELSE us[i][fld]]]

RosterTags ==
    {"OnlineSetPackage", "OnlineAddPackage", "OnlineRemovePackage", "UpdateUserPackage"}

\* a roster that a chat message empties
ApplyRosterChatClears(us, pkg) ==
    CASE pkg.tag = "OnlineSetPackage" -> pkg.f["users"]
      [] pkg.tag = "OnlineAddPackage" -> Append(us, UserOfOnlineAdd(pkg))
      [] pkg.tag = "OnlineRemovePackage" ->
             LET i == UserIndexByNick(us, pkg.f["nick"])
             IN  IF i = 0 THEN us ELSE RemoveAt(us, i)
      [] pkg.tag = "UpdateUserPackage" -> UpdateUser(us, pkg)
      [] pkg.tag = "ChatPackage" -> <<>>
      [] OTHER -> us

\* what _internal_handler does to Bot.users for one event
ApplyRoster(us, pkg) ==
    CASE pkg.tag = "OnlineSetPackage" -> pkg.f["users"]
      [] pkg.tag = "OnlineAddPackage" -> Append(us, UserOfOnlineAdd(pkg))
      [] pkg.tag = "OnlineRemovePackage" ->
             LET i == UserIndexByNick(us, pkg.f["nick"])
             IN  IF i = 0 THEN us ELSE RemoveAt(us, i)
      [] pkg.tag = "UpdateUserPackage" -> UpdateUser(us, pkg)
      [] OTHER -> us

(***************************************************************************)
(* Command Router                                                          *)
(***************************************************************************)

\* the match without the space after the prefix
TriggersWithoutSpace(text, prefix) == StartsWith(text, prefix)

\* event.text.startswith(command[0] + " ") or event.text == command[0]
Triggers(text, prefix) == StartsWith(text, prefix \o <<" ">>) \/ text = prefix

\* event.text.split(" ", 1)[1] if event.text != command[0] else ""
CommandArgs(text, prefix) == IF text # prefix THEN Split1(text, <<" ">>)[2] ELSE <<>>

\* the text the router scans: ChatPackage.text, WhisperPackage.content
RoutedText(pkg) ==
    IF pkg.tag = "ChatPackage" THEN pkg.f["text"] ELSE pkg.f["content"]

RoutedTags == {"ChatPackage", "WhisperPackage"}

(***************************************************************************)
(* Dispatch Engine.  A task is [fn, sel, ev, st, pos]: the handler it runs, *)
(* the selector it was found under, the index of its event in `events`,    *)
(* its state, and the place of the command scan (_internal_handler only).  *)
(*   st: "new"          created by create_task, body not started           *)
(*       "waiting"      suspended in an await that will complete           *)
(*       "blocked"      suspended in an await that never completes         *)
(*       "interrupted"  its await was cancelled and it caught the error    *)
(*       "done" / "failed" / "cancelled"                                   *)
(***************************************************************************)

\* what the body of a plain handler may do when called
SyncOutcomes == {"done", "raise", "block"}
\* what a command's coroutine, awaited by _internal_handler, may do when it is
\* called; "block" is an await that never completes
CommandOutcomes == {"done", "raise", "suspend", "block"}
\* what the body of a coroutine handler may do when its task starts; a task
\* that suspends need never be resumed
StartOutcomes == {"done", "raise", "suspend"}
\* what a coroutine may do when the await it was suspended in completes
ResumeOutcomes == {"done", "raise"}

Finished == {"done", "failed", "cancelled"}

\* the loop variable `command` of _internal_handler while no command is
\* awaited
NoCommand == [prefix |-> <<>>, fn |-> ""]

\* a task of the TaskGroup.  For _internal_handler suspended in a command,
\* pos is the place of the entry of self.commands its loop is at, command is
\* that entry as the loop holds it, used is the size the dict had when the
\* loop began, and lim is the last place the iterator can still return (it
\* returns as many entries as the dict had when the loop began)
NewTask(fn, sel, ev) ==
    [fn |-> fn, sel |-> sel, ev |-> ev, st |-> "new", pos |-> 0, used |-> 0, lim |-> 0,
     command |-> NoCommand]

LogCall(fn, sel, ev) == [what |-> "call", fn |-> fn, sel |-> sel, ev |-> ev]
LogStart(fn, sel, ev) == [what |-> "start", fn |-> fn, sel |-> sel, ev |-> ev]
\* warning("Ignoring exception in event ...") / ("... in command ...")
LogWarning(fn, sel, ev) == [what |-> "warning", fn |-> fn, sel |-> sel, ev |-> ev]
\* command[1](CommandContext(self, user, by, text, args, event))
LogCommand(command, args, ev) ==
    [what |-> "start", fn |-> command.fn, sel |-> "command", ev |-> ev,
     prefix |-> command.prefix, args |-> args]
LogRoster(ev) == [what |-> "roster", fn |-> INTERNAL, sel |-> GLOBAL, ev |-> ev]

\* self.event_functions.get(event_type, [])
HandlersFor(sel) == IF sel \in DOMAIN event_functions THEN event_functions[sel] ELSE <<>>

\* One handler of the loop of _run_events: a coroutine function becomes a task
\* of the TaskGroup, appended to the event loop's queue; a plain function is
\* called now, and an exception it raises is caught and logged.  A plain
\* function that never returns holds the thread: nothing runs after it.
RunOneEvent(fn, sel, ev, out, acc) ==
    IF isAsync(fn)
    THEN [acc EXCEPT !.tasks = Append(acc.tasks, NewTask(fn, sel, ev)),
                     !.ready = Append(acc.ready, Len(acc.tasks) + 1),
                     !.log = Append(acc.log, LogCall(fn, sel, ev))]
    ELSE [acc EXCEPT !.log = acc.log \o <<LogCall(fn, sel, ev), LogStart(fn, sel, ev)>>
                                    \o (IF out = "raise" THEN <<LogWarning(fn, sel, ev)>>
                                        ELSE <<>>),
                     !.hung = (out = "block")]

\* _run_events(event_type, args, taskgroup), from the i-th handler on; outs[off + i]
\* is what the i-th handler does if it is a plain function
RECURSIVE RunEventsFrom(_, _, _, _, _, _, _)
RunEventsFrom(i, fns, sel, ev, outs, off, acc) ==
    IF i > Len(fns) \/ acc.hung THEN acc
    ELSE RunEventsFrom(i + 1, fns, sel, ev, outs, off,
                       RunOneEvent(fns[i], sel, ev, outs[off + i], acc))

\* _run_events with the loop over the handlers run from the last to the first
_run_events_reversed(sel, ev, outs, off, acc) ==
    LET fns == HandlersFor(sel)
    IN  RunEventsFrom(1, [i \in 1..Len(fns) |-> fns[Len(fns) + 1 - i]], sel, ev, outs,
                      off, acc)

\* _run_events with the type-specific handlers handed the event before this
\* one (a stale `event`)
_run_events_stale(sel, ev, outs, off, acc) ==
    RunEventsFrom(1, HandlersFor(sel), sel, IF sel = GLOBAL THEN ev ELSE ev - 1, outs,
                  off, acc)

_run_events(sel, ev, outs, off, acc) ==
    RunEventsFrom(1, HandlersFor(sel), sel, ev, outs, off, acc)

\* the nick test made with the nick the bot was constructed with
IsSelfAtStart(pkg) ==
    /\ pkg.tag \in {"ChatPackage", "EmotePackage", "OnlineAddPackage",
                    "OnlineRemovePackage", "WhisperPackage"}
    /\ pkg.f["nick"] = BotNick
    /\ ignore_self

\* the nick test of Bot.run: the event is the bot's own
IsSelf(pkg) ==
    /\ pkg.tag \in {"ChatPackage", "EmotePackage", "OnlineAddPackage",
                    "OnlineRemovePackage", "WhisperPackage"}
    /\ pkg.f["nick"] = self_nick
    /\ ignore_self

\* the loop over the commands with a `break` after a command that matched
NextCommandBreak(k, matched) == IF matched THEN Len(commands) + 1 ELSE k + 1

\* `for command in self.commands.items()`: the command after the k-th,
\* whether or not the k-th matched
NextCommand(k, matched) == k + 1

\* The command loop of _internal_handler from the k-th command on.  acc is
\* [st, pos, log, lim]; couts[k] is what the k-th command's coroutine does
\* when it is called.  A command that raises is caught and logged and the
\* loop goes on; one that suspends leaves the loop suspended at k.  An entry
\* beyond lim makes the iterator raise RuntimeError("dictionary keys changed
\* during iteration"), outside the try, and the handler fails.
RECURSIVE ScanFrom(_, _, _, _, _)
ScanFrom(k, pkg, ev, couts, acc) ==
    IF k > Len(commands) THEN [acc EXCEPT !.st = "done", !.pos = 0]
    ELSE IF k > acc.lim THEN [acc EXCEPT !.st = "failed", !.pos = 0]
    ELSE IF ~Triggers(RoutedText(pkg), commands[k].prefix)
    THEN ScanFrom(NextCommand(k, FALSE), pkg, ev, couts, acc)
    ELSE IF UserIndexByNick(users, pkg.f["nick"]) = 0
    THEN ScanFrom(NextCommand(k, TRUE), pkg, ev, couts,
                  [acc EXCEPT !.log = Append(acc.log,
                                             LogWarning(commands[k].fn, "User not found", ev))])
    ELSE LET acc2 == [acc EXCEPT !.log = Append(acc.log,
                                     LogCommand(commands[k],
                                                CommandArgs(RoutedText(pkg),
                                                            commands[k].prefix),
                                                ev))]
         IN  CASE couts[k] = "suspend" -> [acc2 EXCEPT !.st = "waiting", !.pos = k]
               [] couts[k] = "block" -> [acc2 EXCEPT !.st = "blocked", !.pos = k]
               [] couts[k] = "raise" ->
                      ScanFrom(NextCommand(k, TRUE), pkg, ev, couts,
                               [acc2 EXCEPT !.log = Append(acc2.log,
                                   LogWarning(commands[k].fn, "command", ev))])
               [] OTHER -> ScanFrom(NextCommand(k, TRUE), pkg, ev, couts, acc2)

\* _internal_handler from its first line to its first suspension
InternalStart(pkg, ev, couts) ==
    IF pkg.tag \in RoutedTags
    THEN ScanFrom(1, pkg, ev, couts,
                  [st |-> "done", pos |-> 0, log |-> log, lim |-> Len(commands)])
    ELSE [st |-> "done", pos |-> 0, lim |-> 0,
          log |-> IF pkg.tag \in RosterTags THEN Append(log, LogRoster(ev)) ELSE log]

\* TaskGroup._abort, with task t the one that failed: every other unfinished
\* task is cancelled.  A task that has not started never runs its body, and a
\* user's handler suspended in an await is taken to let the CancelledError
\* through.  _internal_handler suspended in a command's await catches it with
\* the bare `except:` around the await and goes on ("interrupted").
AbortTasks(ts, t) ==
    [i \in 1..Len(ts) |->
        IF i = t \/ ts[i].st \in Finished THEN ts[i]
        ELSE IF ts[i].fn = INTERNAL /\ ts[i].st \in {"waiting", "blocked"}
        THEN [ts[i] EXCEPT !.st = "interrupted"]
        ELSE [ts[i] EXCEPT !.st = "cancelled"]]

\* the queue without the tasks, which _abort has cancelled
RECURSIVE OnlyMain(_)
OnlyMain(q) ==
    IF q = <<>> THEN <<>>
    ELSE (IF Head(q) = 0 THEN <<0>> ELSE <<>>) \o OnlyMain(Tail(q))

(***************************************************************************)
(* The frames of the model's inbound stream, already parsed by loads()     *)
(***************************************************************************)

NickA == <<"A">>
NickC == <<"C">>

\* an envelope as the server sends it, with every key the models read
Envelope(cmd, nick, text) ==
    [cmd |-> cmd, channel |-> <<"c">>, color |-> "red", hash |-> "h", isBot |-> FALSE,
     level |-> 100, nick |-> nick, text |-> text, time |-> 0, uType |-> "user",
     userid |-> 1]

UserA == [channel |-> <<"c">>, color |-> "red", hash |-> "h", isBot |-> FALSE,
          isme |-> FALSE, level |-> 100, nick |-> NickA, uType |-> "user", userid |-> 1]

Text_a_b_c == <<"a", " ", "b", " ", "c">>
Prefix_a == <<"a">>
Prefix_a_b == <<"a", " ", "b">>

OnlineSetEnvelope ==
    [cmd |-> "onlineSet", channel |-> <<"c">>, nicks |-> <<NickA>>, time |-> 0,
     users |-> <<UserA>>]

Frames ==
    { Envelope("chat", NickA, Text_a_b_c),
      Envelope("chat", NickC, Text_a_b_c),
      Envelope("chat", BotNick, Text_a_b_c),
      Envelope("onlineAdd", NickC, <<>>),
      Envelope("onlineRemove", NickA, <<>>),
      [Envelope("updateUser", NickA, <<>>) EXCEPT !.color = "blue"],
      OnlineSetEnvelope,
      [time |-> 0] }

(***************************************************************************)
(* Bot.run: the receive loop.  The code between two awaits runs without    *)
(* interruption.  `ready` is the event loop's queue of what has not run    *)
(* yet: the tasks create_task has made, and Bot.run (0) once recv() has a  *)
(* frame for it.  websocket.recv returns at once when a frame is buffered  *)
(* and suspends otherwise.                                                 *)
(***************************************************************************)

\* a nickname change_nick gives the bot
NickN == <<"N">>

\* the frames of the self-filter specification: each variant with a nick,
\* once with the nick the bot starts with and once with the nick N
SelfFrames ==
    UNION {{Envelope("chat", m, Text_a_b_c),
            Envelope("emote", m, Text_a_b_c),
            Envelope("onlineAdd", m, <<>>),
            Envelope("onlineRemove", m, <<>>),
            [cmd |-> "info", type |-> "whisper", from |-> m, to |-> 2, channel |-> <<"c">>,
             time |-> 0,
             text |-> m \o <<" ", "w", "h", "i", "s", "p", "e", "r", "e", "d", ":", " ",
                             "h", "i">>],
            [cmd |-> "updateUser", nick |-> m, color |-> "blue"]} : m \in {BotNick, NickN}}
        \cup {OnlineSetEnvelope}

\* event = json_to_object(loads(package)), for each frame of the model
Classified == [frame \in Frames \cup SelfFrames |-> json_to_object(frame)]

\* the most frames the inbound stream holds
MaxFrames == 2

\* Bot.run taking a frame only once every handler task has finished
MainTurnAfterTasks ==
    /\ mainpc = "recv" /\ ready # <<>> /\ Head(ready) = 0 /\ ~maincancel
    /\ \A t \in 1..Len(tasks) : tasks[t].st \in Finished

\* Bot.run has the thread and recv() has a frame (or an error) for it
MainTurn == mainpc = "recv" /\ ready # <<>> /\ Head(ready) = 0 /\ ~maincancel

\* where Bot.run goes after an iteration: `more` says a frame is buffered, so
\* that the next recv() returns without suspending
AfterIteration(acc, more) ==
    /\ mainpc' = IF acc.hung THEN "hung" ELSE "recv"
    /\ tasks' = acc.tasks
    /\ log' = acc.log
    /\ IF more \/ acc.hung
       THEN ready' = acc.ready /\ mainwait' = FALSE
       ELSE ready' = Tail(acc.ready) /\ mainwait' = TRUE

\* recv() gives a frame that json_to_object rejects, or the bot's own event:
\* `continue`
MainSkip(frame, more) ==
    /\ MainTurn
    /\ remaining > 0
    /\ LET r == Classified[frame]
       IN  r.exc # "none" \/ IsSelf(r.pkg)
    /\ remaining' = remaining - 1
    /\ AfterIteration([tasks |-> tasks, ready |-> ready, log |-> log, hung |-> FALSE], more)
    /\ UNCHANGED <<events, maincancel, aborting>>
    /\ UNCHANGED botVars
    /\ UNCHANGED otherVars

\* recv() gives a frame that classifies: both _run_events calls
MainDispatch(frame, outs, more) ==
    /\ MainTurn
    /\ remaining > 0
    /\ LET r == Classified[frame]
       IN  /\ r.exc = "none"
           /\ ~IsSelf(r.pkg)
           /\ LET ev == Len(events) + 1
                  ng == Len(HandlersFor(GLOBAL))
                  a0 == [tasks |-> tasks, ready |-> ready, log |-> log, hung |-> FALSE]
                  a1 == _run_events(GLOBAL, ev, outs, 0, a0)
                  a2 == _run_events(r.pkg.tag, ev, outs, ng, a1)
              IN  /\ DOMAIN outs = 1..(ng + Len(HandlersFor(r.pkg.tag)))
                  /\ events' = Append(events, r.pkg)
                  /\ AfterIteration(a2, more)
    /\ remaining' = remaining - 1
    /\ UNCHANGED <<maincancel, aborting>>
    /\ UNCHANGED botVars
    /\ UNCHANGED otherVars

\* recv() raises ConnectionClosed: the "disconnect" handlers, then break
MainClosed(outs) ==
    /\ MainTurn
    /\ LET a0 == [tasks |-> tasks, ready |-> Tail(ready), log |-> log, hung |-> FALSE]
           a1 == _run_events("disconnect", 0, outs, 0, a0)
       IN  /\ DOMAIN outs = 1..Len(HandlersFor("disconnect"))
           /\ tasks' = a1.tasks
           /\ ready' = a1.ready
           /\ log' = a1.log
           /\ mainpc' = IF a1.hung THEN "hung" ELSE "aexit"
    /\ killed' = TRUE
    /\ mainwait' = FALSE
    /\ UNCHANGED <<events, remaining, maincancel, aborting>>
    /\ UNCHANGED <<event_functions, commands, users, loaded_plugins>>
    /\ UNCHANGED otherVars

\* recv() gives an empty frame: break
MainEmpty ==
    /\ MainTurn
    /\ killed' = TRUE
    /\ mainpc' = "aexit"
    /\ ready' = Tail(ready)
    /\ mainwait' = FALSE
    /\ UNCHANGED <<tasks, events, remaining, log, maincancel, aborting>>
    /\ UNCHANGED <<event_functions, commands, users, loaded_plugins>>
    /\ UNCHANGED otherVars

\* recv() raises another exception (RuntimeError is raised in its place), or
\* loads(package) raises on a frame that is not JSON: the exception leaves the
\* TaskGroup's body, and the TaskGroup cancels its tasks
MainError ==
    /\ MainTurn
    /\ mainpc' = "aexit_exc"
    /\ aborting' = TRUE
    /\ tasks' = IF aborting THEN tasks ELSE AbortTasks(tasks, 0)
    /\ ready' = IF aborting THEN Tail(ready) ELSE <<>>
    /\ mainwait' = FALSE
    /\ UNCHANGED <<events, remaining, log, maincancel>>
    /\ UNCHANGED botVars
    /\ UNCHANGED otherVars

\* the CancelledError of the TaskGroup reaches Bot.run in recv()
MainCancelled ==
    /\ mainpc = "recv" /\ maincancel
    /\ mainpc' = "aexit"
    /\ maincancel' = FALSE
    /\ ready' = IF ready # <<>> /\ Head(ready) = 0 THEN Tail(ready) ELSE ready
    /\ mainwait' = FALSE
    /\ UNCHANGED <<tasks, events, remaining, log, aborting>>
    /\ UNCHANGED botVars
    /\ UNCHANGED otherVars

\* A frame (or the end of the stream) arrives while Bot.run is suspended in
\* recv().  Bot.run suspended after the tasks it created were queued, and the
\* event loop runs what is queued before it polls the socket again.
WakeMain ==
    /\ mainpc = "recv" /\ mainwait /\ ~maincancel
    /\ ready = <<>>
    /\ ready' = Append(ready, 0)
    /\ mainwait' = FALSE
    /\ UNCHANGED <<mainpc, maincancel, aborting, tasks, events, remaining, log>>
    /\ UNCHANGED botVars
    /\ UNCHANGED otherVars

\* TaskGroup.__aexit__ has waited for every task: Bot.run returns, or raises
\* the group's errors (only CancelledError is caught around the TaskGroup)
MainFinish ==
    /\ mainpc \in {"aexit", "aexit_exc"}
    /\ \A i \in 1..Len(tasks) : tasks[i].st \in Finished
    /\ mainpc' = IF mainpc = "aexit_exc" \/ \E i \in 1..Len(tasks) : tasks[i].st = "failed"
                 THEN "raised" ELSE "returned"
    /\ UNCHANGED <<mainwait, maincancel, aborting, tasks, ready, events, remaining, log>>
    /\ UNCHANGED botVars
    /\ UNCHANGED otherVars

(***************************************************************************)
(* The tasks of the TaskGroup                                              *)
(***************************************************************************)

TaskTurn(t) == mainpc # "hung" /\ ready # <<>> /\ Head(ready) = t /\ t > 0

\* A task ends with an exception: TaskGroup._on_task_done.  The first failure
\* aborts the group: the other tasks are cancelled, and so is Bot.run while it
\* is inside the TaskGroup's body.
TaskFails(t, q, lg) ==
    LET ts == [tasks EXCEPT ![t].st = "failed"]
    IN  /\ log' = lg
        /\ aborting' = TRUE
        /\ IF aborting
           THEN /\ tasks' = ts
                /\ ready' = q
                /\ UNCHANGED maincancel
           ELSE /\ tasks' = AbortTasks(ts, t)
                /\ maincancel' = (mainpc = "recv")
                /\ ready' = OnlyMain(q)
        /\ UNCHANGED mainwait

\* a task that goes to state st without failing
TaskGoes(t, st, pos, q, lg) ==
    /\ tasks' = [tasks EXCEPT ![t].st = st, ![t].pos = pos]
    /\ ready' = q
    /\ log' = lg
    /\ UNCHANGED <<maincancel, mainwait, aborting>>

\* _internal_handler after the part r of its command loop: suspended in the
\* command at r.pos, done, or failed in the dict's iterator; used is the size
\* of self.commands when the loop began
ScanGoes(t, r, used, q) ==
    IF r.st = "failed" THEN TaskFails(t, q, r.log)
    ELSE /\ tasks' = [tasks EXCEPT ![t].st = r.st, ![t].pos = r.pos, ![t].used = used,
                                    ![t].lim = r.lim,
                                    ![t].command = IF r.pos > 0 THEN commands[r.pos]
                                                   ELSE NoCommand]
         /\ ready' = q
         /\ log' = r.log
         /\ UNCHANGED <<maincancel, mainwait, aborting>>

OutcomeState(out) ==
    CASE out = "done" -> "done"
      [] out = "suspend" -> "waiting"

\* the body of a user's coroutine handler starts
TaskStart(t, out) ==
    /\ TaskTurn(t)
    /\ tasks[t].st = "new" /\ tasks[t].fn # INTERNAL
    /\ out \in StartOutcomes
    /\ LET lg == Append(log, LogStart(tasks[t].fn, tasks[t].sel, tasks[t].ev))
       IN  IF out = "raise" THEN TaskFails(t, Tail(ready), lg)
           ELSE TaskGoes(t, OutcomeState(out), 0, Tail(ready), lg)
    /\ UNCHANGED <<mainpc, events, remaining>>
    /\ UNCHANGED botVars
    /\ UNCHANGED otherVars

\* the await a user's coroutine handler is suspended in completes, and the
\* handler goes on
TaskResume(t, out) ==
    /\ mainpc # "hung"
    /\ t \in 1..Len(tasks)
    /\ tasks[t].st = "waiting" /\ tasks[t].fn # INTERNAL
    /\ out \in ResumeOutcomes
    /\ IF out = "raise" THEN TaskFails(t, ready, log)
       ELSE TaskGoes(t, "done", 0, ready, log)
    /\ UNCHANGED <<mainpc, events, remaining>>
    /\ UNCHANGED botVars
    /\ UNCHANGED otherVars

\* _internal_handler runs from its first line: the roster, then the commands
InternalRun(t, couts) ==
    /\ TaskTurn(t)
    /\ tasks[t].st = "new" /\ tasks[t].fn = INTERNAL
    /\ DOMAIN couts = 1..Len(commands)
    /\ LET pkg == events[tasks[t].ev]
           r == InternalStart(pkg, tasks[t].ev, couts)
       IN  /\ users' = ApplyRoster(users, pkg)
           /\ ScanGoes(t, r, IF pkg.tag \in RoutedTags THEN Len(commands) ELSE 0,
                       Tail(ready))
    /\ UNCHANGED <<mainpc, events, remaining>>
    /\ UNCHANGED <<event_functions, commands, killed, loaded_plugins>>
    /\ UNCHANGED otherVars

\* _internal_handler goes on after the command it awaited: the command returned
\* or raised (out), or the await was cancelled; the bare `except:` around the
\* await catches either, and the loop over the commands goes on.  The loop
\* asks the iterator of self.commands.items() for the next entry, and the
\* iterator raises RuntimeError("dictionary changed size during iteration")
\* when the dict no longer has the size it had when the loop began; the `for`
\* is outside the try, so the handler fails
InternalResume(t, out, couts) ==
    /\ mainpc # "hung"
    /\ t \in 1..Len(tasks)
    /\ tasks[t].st \in {"waiting", "interrupted"} /\ tasks[t].fn = INTERNAL
    /\ out \in ResumeOutcomes
    /\ tasks[t].st = "interrupted" => out = "raise"
    /\ DOMAIN couts = 1..Len(commands)
    /\ LET k == tasks[t].pos
           lg == IF out = "raise"
                 THEN Append(log, LogWarning(tasks[t].command.fn, "command", tasks[t].ev))
                 ELSE log
           acc == [st |-> "done", pos |-> 0, log |-> lg, lim |-> tasks[t].lim]
           r == IF Len(commands) # tasks[t].used THEN [acc EXCEPT !.st = "failed"]
                ELSE ScanFrom(NextCommand(k, TRUE), events[tasks[t].ev], tasks[t].ev,
                              couts, acc)
       IN  ScanGoes(t, r, tasks[t].used, ready)
    /\ UNCHANGED <<mainpc, events, remaining>>
    /\ UNCHANGED botVars
    /\ UNCHANGED otherVars

(***************************************************************************)
(* The dispatch specification: a Bot whose handlers and commands have been *)
(* registered, running Bot.run on frames drawn from Frames.                *)
(***************************************************************************)

SeqsUpTo(S, n) == UNION {[1..k -> S] : k \in 0..n}

\* user handlers registered under "__GLOBAL__" / under one event type
MaxGlobalHandlers == 2
MaxTypedHandlers == 1
MaxLoad == 2

UserHandlers == {"sync_fn", "async_fn"}

CommandTables ==
    { <<>>,
      <<[prefix |-> Prefix_a, fn |-> "cmd1"]>>,
      <<[prefix |-> Prefix_a, fn |-> "cmd1"], [prefix |-> Prefix_a_b, fn |-> "cmd2"]>> }

\* the event types the user's typed handlers are registered under
TypedSelectorSets == {{"ChatPackage"}, RosterTags}

Registry(g, tl, S) ==
    [sel \in {GLOBAL} \cup (IF tl = <<>> THEN {} ELSE S) |->
        IF sel = GLOBAL THEN <<INTERNAL>> \o g ELSE tl]

RunInit ==
    /\ mainpc = "recv"
    /\ mainwait = TRUE
    /\ maincancel = FALSE
    /\ aborting = FALSE
    /\ tasks = <<>>
    /\ ready = <<>>
    /\ events = <<>>
    /\ log = <<>>

\* verifyNick has not been called
NickIdle ==
    /\ nick_arg = <<>>
    /\ nick_ok = FALSE
    /\ nick_done = FALSE

ClassifyIdle ==
    /\ cl_data = <<>>
    /\ cl_result = Raise("none", <<>>)
    /\ cl_done = FALSE
    /\ cl_again = Raise("none", <<>>)
    /\ cl_again_done = FALSE
    /\ NickIdle

\* The inbound stream holds `remaining` frames.  The longer the stream, the
\* fewer handlers and commands are registered: (frames - 1) * registrations
\* is at most MaxLoad.
Init ==
    /\ commands \in CommandTables
    /\ remaining \in 1..MaxFrames
    /\ \E g \in SeqsUpTo(UserHandlers, MaxGlobalHandlers),
          tl \in SeqsUpTo(UserHandlers, MaxTypedHandlers),
          S \in TypedSelectorSets :
            /\ event_functions = Registry(g, tl, S)
            /\ (remaining - 1) * (Len(g) + Len(tl) + Len(commands)) <= MaxLoad
    /\ users = <<UserA>>
    /\ killed = FALSE
    /\ loaded_plugins = <<>>
    /\ lastop = NoOp
    /\ nops = 0
    /\ RunInit
    /\ ClassifyIdle
    /\ CallIdle

SyncOuts(n) == [1..n -> SyncOutcomes]
CmdOuts == [1..Len(commands) -> CommandOutcomes]

Next ==
    \/ \E frame \in Frames, more \in BOOLEAN : MainSkip(frame, more)
    \/ \E frame \in Frames, more \in BOOLEAN :
          \E outs \in SyncOuts(Len(HandlersFor(GLOBAL))
                               + Len(HandlersFor(Classified[frame].pkg.tag))) :
             MainDispatch(frame, outs, more)
    \/ \E outs \in SyncOuts(Len(HandlersFor("disconnect"))) : MainClosed(outs)
    \/ MainEmpty
    \/ MainError
    \/ MainCancelled
    \/ WakeMain
    \/ MainFinish
    \/ \E t \in 1..Len(tasks), out \in StartOutcomes : TaskStart(t, out)
    \/ \E t \in 1..Len(tasks), out \in ResumeOutcomes : TaskResume(t, out)
    \/ \E t \in 1..Len(tasks) : \E couts \in CmdOuts : InternalRun(t, couts)
    \/ \E t \in 1..Len(tasks), out \in ResumeOutcomes :
          \E couts \in CmdOuts : InternalResume(t, out, couts)

Spec == Init /\ [][Next]_vars

(***************************************************************************)
(* Properties of the dispatch specification                                *)
(***************************************************************************)

LogIdx == 1..Len(log)
TaskIdx == 1..Len(tasks)
EventIdx == 1..Len(events)

\* a log entry that records a handler of a received event being invoked: a
\* global or type-specific handler called by _run_events, or a command awaited
\* by _internal_handler
IsHandlerCall(e) == e.what = "call" /\ e.ev >= 1
IsCommandCall(e) == e.what = "start" /\ e.sel = "command"

\* the text of event ev triggers the k-th command
Matches(ev, k) ==
    /\ events[ev].tag \in RoutedTags
    /\ Triggers(RoutedText(events[ev]), commands[k].prefix)

\* C2: when a handler of an event raises, no other handler of the same event
\* is kept from running to completion: none is cancelled
C2_SiblingsUnaffected ==
    \A t \in TaskIdx, u \in TaskIdx :
        (t # u /\ tasks[t].ev = tasks[u].ev /\ tasks[t].st = "failed")
            => tasks[u].st # "cancelled"

\* C3: the receive loop is left only because the stream closed or gave an
\* empty frame (both set `killed`), never because of a handler
C3_LoopEndsOnlyWithStream ==
    mainpc = "aexit" => killed

\* nothing of the program can run any more, and no task was cancelled
Stuck ==
    /\ ~aborting
    /\ mainpc \in {"aexit", "hung"}
    /\ \A t \in TaskIdx : tasks[t].st \in Finished \cup {"blocked"}
    /\ mainpc = "hung" \/ \E t \in TaskIdx : tasks[t].st = "blocked"

\* every handler and every matching command of event ev has been invoked (a
\* command whose sender is not in the roster is logged instead)
AllInvoked(ev) ==
    /\ \A sel \in {GLOBAL, events[ev].tag} :
          \A i \in 1..Len(HandlersFor(sel)) :
             \E j \in LogIdx : log[j] = LogCall(HandlersFor(sel)[i], sel, ev)
    /\ \A k \in 1..Len(commands) :
          Matches(ev, k) =>
             \E j \in LogIdx :
                \/ (IsCommandCall(log[j]) /\ log[j].fn = commands[k].fn /\ log[j].ev = ev)
                \/ log[j] = LogWarning(commands[k].fn, "User not found", ev)

\* C4: a handler that blocks or never completes keeps no other handler and
\* no matching command of the same event from being invoked: when the program
\* has come to rest with a handler still blocked, every handler and matching
\* command of every dispatched event has been invoked
C4_BlockedHandlerIsolated ==
    Stuck => \A ev \in EventIdx : AllInvoked(ev)

\* C5: the receive loop does not wait for handler tasks.  Whenever Bot.run is
\* in recv(), the stream has a frame, and every task created so far has
\* started, the loop can take its next step (be given the frame, or classify
\* and dispatch it), whatever tasks are still suspended
C5_LoopDoesNotWait ==
    (/\ mainpc = "recv" /\ ~maincancel /\ remaining > 0
     /\ \A t \in TaskIdx : tasks[t].st # "new")
        => ENABLED (\/ WakeMain
                    \/ \E frame \in Frames, more \in BOOLEAN : MainSkip(frame, more)
                    \/ \E frame \in Frames, more \in BOOLEAN :
                          \E outs \in SyncOuts(Len(HandlersFor(GLOBAL))
                                   + Len(HandlersFor(Classified[frame].pkg.tag))) :
                             MainDispatch(frame, outs, more))

\* event 2 was dispatched after a handler task of event 1 had started, and
\* that task is still suspended
C5_Witness ==
    /\ Len(events) = 2
    /\ \E t \in TaskIdx :
          /\ tasks[t].ev = 1 /\ tasks[t].st = "waiting"
          /\ \E i \in LogIdx, j \in LogIdx :
                /\ i < j
                /\ log[i].what = "start" /\ log[i].ev = 1
                /\ log[j].what = "call" /\ log[j].ev = 2

\* C6 as stated: every handler invoked for event N, matching commands
\* included, is invoked before any handler of event N+1.  In particular no
\* command of event N is invoked once the body of a handler or command of a
\* later event has started
C6_EventOrderWithCommands ==
    \A i \in LogIdx, j \in LogIdx :
        (i < j /\ log[i].what = "start" /\ log[i].ev >= 1 /\ IsCommandCall(log[j]))
            => log[i].ev <= log[j].ev

\* C6 amended: every global and type-specific handler of event N is called
\* (a plain function) or scheduled as a task (a coroutine function) before any
\* handler of event N+1 is called or scheduled
C6_DispatchOrder ==
    \A i \in LogIdx, j \in LogIdx :
        (i < j /\ IsHandlerCall(log[i]) /\ IsHandlerCall(log[j]))
            => log[i].ev <= log[j].ev

\* handlers of two events have been called, the second event's after the
\* first's, and a command of the first event was invoked in between or after
C6_Witness ==
    /\ Len(events) = 2
    /\ \E i \in LogIdx, j \in LogIdx :
          /\ i < j
          /\ IsHandlerCall(log[i]) /\ log[i].ev = 1
          /\ IsHandlerCall(log[j]) /\ log[j].ev = 2
    /\ \E k \in LogIdx : IsCommandCall(log[k]) /\ log[k].ev = 1

\* the calls _run_events made for event ev, in the order they were made
CallsOf(ev) ==
    LET Test(e) == e.what = "call" /\ e.ev = ev
    IN  SelectSeq(log, Test)

\* the calls Bot.run owes event ev: the global handlers in insertion order,
\* then the handlers of the event's type in insertion order
ExpectedCalls(ev) ==
    LET g == HandlersFor(GLOBAL)
        tl == HandlersFor(events[ev].tag)
    IN  [i \in 1..Len(g) |-> LogCall(g[i], GLOBAL, ev)]
            \o [i \in 1..Len(tl) |-> LogCall(tl[i], events[ev].tag, ev)]

\* C7: for one dispatched event every global handler is invoked before any
\* handler of the event's type, each list in insertion order, whatever mix of
\* plain and coroutine functions; a plain handler that never returns cuts the
\* sequence short
C7_GlobalThenTypedInOrder ==
    \A ev \in EventIdx :
        LET c == CallsOf(ev)
            x == ExpectedCalls(ev)
        IN  /\ Len(c) <= Len(x)
            /\ c = SubSeq(x, 1, Len(c))
            /\ mainpc # "hung" => c = x

\* an event with a plain and a coroutine handler under "__GLOBAL__" and a
\* handler under its own type has been dispatched
C7_Witness ==
    \E ev \in EventIdx :
        /\ Len(HandlersFor(events[ev].tag)) > 0
        /\ \E i \in 1..Len(HandlersFor(GLOBAL)) : HandlersFor(GLOBAL)[i] = "sync_fn"
        /\ \E i \in 1..Len(HandlersFor(GLOBAL)) : HandlersFor(GLOBAL)[i] = "async_fn"
        /\ CallsOf(ev) = ExpectedCalls(ev)

\* C8: for a roster event, the Session Directory is updated before the body of
\* any user-registered handler of that event starts
C8_RosterBeforeHandlers ==
    \A j \in LogIdx :
        (/\ log[j].what = "start" /\ log[j].ev >= 1
         /\ log[j].fn # INTERNAL /\ log[j].sel # "command"
         /\ events[log[j].ev].tag \in RosterTags)
            => \E i \in 1..(j - 1) : log[i] = LogRoster(log[j].ev)

\* C20: once the receive loop has ended because the stream closed or gave an
\* empty frame (both set `killed`), no handler task is cancelled: each task
\* in flight runs until it ends by itself; and Bot.run has returned or
\* raised only when every task has ended
C20_TasksDrainedNotCancelled ==
    /\ killed => \A t \in TaskIdx : tasks[t].st \notin {"cancelled", "interrupted"}
    /\ mainpc \in {"returned", "raised"} => \A t \in TaskIdx : tasks[t].st \in Finished

(***************************************************************************)
(* The classifier specification: json_to_object applied to one envelope    *)
(* drawn from Envelopes.                                                   *)
(***************************************************************************)

Text_hi == <<"h", "i">>
Text_A_is_now_C == <<"A", " ", "i", "s", " ", "n", "o", "w", " ", "C">>
Text_is_now_x == <<" ", "i", "s", " ", "n", "o", "w", " ", "x">>
Text_bad_is_now_C == <<"A", "!", " ", "i", "s", " ", "n", "o", "w", " ", "C">>
Text_A_whispered == <<"A", " ", "w", "h", "i", "s", "p", "e", "r", "e", "d", ":", " ", "h", "i">>
Text_you_whispered == WHISPERED_TO \o <<" ", "A", ":", " ", "h", "i">>
Text_you_whispered_cut == WHISPERED_TO \o <<" ", "A">>
Text_A_is_now_not_C == <<"A", " ", "i", "s", " ", "n", "o", "w", " ", "n", "o", "t", " ", "C", "!">>

ClassifyTexts ==
    {Text_hi, Text_a_b_c, Text_A_is_now_C, Text_is_now_x, Text_bad_is_now_C,
     Text_A_whispered, Text_you_whispered, Text_you_whispered_cut, LOCKROOM_TEXT,
     RL_CHANNEL_TEXT, RL_INVITE_TEXT, RL_GLOBAL_TEXT, Text_A_is_now_not_C, RL_COLOR_TEXT,
     RL_CHANGENICK_TEXT, RL_MESSAGE_TEXT}

\* "" is an empty cmd, "join" a command json_to_object does not know
ClassifyCmds ==
    {"chat", "emote", "info", "onlineSet", "onlineAdd", "onlineRemove", "updateUser",
     "updateMessage", "captcha", "warn", "join", ""}

\* "none": the envelope has no `type`
ClassifyTypes == {"none", "whisper", "invite", "other", ""}

\* "none": no key is missing
DroppedKeys == {"none", "cmd", "text", "time", "nick", "to", "from", "channel"}

\* an envelope with every key some model reads
FullEnvelope(cmd, type, text) ==
    [cmd |-> cmd, type |-> type, text |-> text, channel |-> <<"c">>, color |-> "red",
     hash |-> "h", isBot |-> FALSE, level |-> 100, nick |-> NickA, time |-> 0,
     uType |-> "user", userid |-> 1, from |-> NickA, to |-> 2,
     inviteChannel |-> <<"d">>, customId |-> "1", mode |-> "append",
     nicks |-> <<NickA>>, users |-> <<UserA>>]

Envelopes ==
    {LET e == FullEnvelope(cmd, type, text)
         e1 == IF type = "none" THEN Del(e, "type") ELSE e
     IN  IF drop = "none" THEN e1 ELSE Del(e1, drop) :
        cmd \in ClassifyCmds, type \in ClassifyTypes, text \in ClassifyTexts,
        drop \in DroppedKeys}

InitClassify ==
    /\ BotInit
    /\ RunInit
    /\ remaining = 0
    /\ lastop = NoOp
    /\ nops = 0
    /\ cl_data \in Envelopes
    /\ cl_result = Raise("none", <<>>)
    /\ cl_done = FALSE
    /\ cl_again = Raise("none", <<>>)
    /\ cl_again_done = FALSE
    /\ NickIdle
    /\ CallIdle

\* event = json_to_object(data)
Classify ==
    /\ ~cl_done
    /\ cl_result' = json_to_object(cl_data)
    /\ cl_done' = TRUE
    /\ UNCHANGED <<cl_data, cl_again, cl_again_done, lastop, nops, nickVars, callVars>>
    /\ UNCHANGED botVars
    /\ UNCHANGED runVars

\* json_to_object(data) called again with the same dict, as the first call
\* left it
ClassifyAgain ==
    /\ cl_done
    /\ ~cl_again_done
    /\ cl_again' = json_to_object(cl_result.data)
    /\ cl_again_done' = TRUE
    /\ UNCHANGED <<cl_data, cl_result, cl_done, lastop, nops, nickVars, callVars>>
    /\ UNCHANGED botVars
    /\ UNCHANGED runVars

NextClassify == Classify \/ ClassifyAgain

SpecClassify == InitClassify /\ [][NextClassify]_vars

\* the commands the if/elif chain of json_to_object names
KnownCmds ==
    {"chat", "emote", "info", "onlineSet", "onlineAdd", "onlineRemove", "updateUser",
     "updateMessage", "captcha", "warn"}

\* an envelope no branch of json_to_object is written for: an unknown command,
\* or an info envelope with a type that is neither whisper nor invite
Unrecognized(data) ==
    /\ ~Falsy(data, "cmd")
    /\ \/ data["cmd"] \notin KnownCmds
       \/ data["cmd"] = "info" /\ ~Falsy(data, "type")
                               /\ data["type"] \notin {"whisper", "invite"}

WellFormedInfo(data) ==
    /\ ~Falsy(data, "cmd") /\ data["cmd"] = "info"
    /\ {"text", "time", "channel"} \subseteq DOMAIN data

\* a nickname as specified: 1 to 24 characters, each a letter, a digit or an
\* underscore
NickAsSpecified(s) ==
    /\ Len(s) >= 1
    /\ Len(s) <= 24
    /\ \A i \in 1..Len(s) : s[i] \in NickChars

\* the words of a text: its maximal runs of characters other than a space
Words(text) == SplitWs(text)

\* the nickname-change pattern as specified: exactly three spaces, "is now"
\* right after the first space, and a first and a fourth word that are
\* nicknames
NickChangeAsSpecified(text) ==
    /\ Cardinality({i \in 1..Len(text) : text[i] = " "}) = 3
    /\ \E i \in 1..Len(text) :
          /\ text[i] = " "
          /\ \A j \in 1..(i - 1) : text[j] # " "
          /\ Len(text) >= i + Len(IS_NOW)
          /\ \A k \in 1..Len(IS_NOW) : text[i + k] = IS_NOW[k]
    /\ Len(Words(text)) >= 4
    /\ NickAsSpecified(Words(text)[1])
    /\ NickAsSpecified(Words(text)[4])

C26_NickChangeClassified ==
    (/\ cl_done
     /\ WellFormedInfo(cl_data)
     /\ Falsy(cl_data, "type")
     /\ NickChangeAsSpecified(cl_data["text"]))
        => /\ cl_result.exc = "none"
           /\ cl_result.pkg.tag = "ChangeNickPackage"
           /\ cl_result.pkg.f["old_nick"] = Words(cl_data["text"])[1]
           /\ cl_result.pkg.f["new_nick"] = Words(cl_data["text"])[4]

\* C27: for a well-formed info envelope without type whose text does not
\* match the nickname-change pattern, json_to_object returns the room-locked
\* package when the text is the lockout phrase and the generic info package
\* with that text otherwise, and never raises
C27_OtherInfoIsLockroomOrInfo ==
    (/\ cl_done
     /\ WellFormedInfo(cl_data)
     /\ Falsy(cl_data, "type")
     /\ ~NickChangeAsSpecified(cl_data["text"]))
        => /\ cl_result.exc = "none"
           /\ IF cl_data["text"] = LOCKROOM_TEXT
              THEN cl_result.pkg.tag = "LockroomPackage"
              ELSE /\ cl_result.pkg.tag = "InfoPackage"
                   /\ cl_result.pkg.f["text"] = cl_data["text"]

\* the reason code the specification's table gives for a rate-limit phrase
ReasonAsSpecified(text) ==
    CASE text = RL_CHANNEL_TEXT -> "CHANNEL_RL"
      [] text = RL_COLOR_TEXT -> "COLOR_RL"
      [] text = RL_CHANGENICK_TEXT -> "CHANGENICK_RL"
      [] text = RL_MESSAGE_TEXT -> "MESSAGE_RL"
      [] text = RL_GLOBAL_TEXT -> "GLOBAL_RL"
      [] OTHER -> "none"

\* C28: for a warn envelope with a text, json_to_object returns the
\* rate-limited package with the reason of the table when the text is one of
\* the five rate-limit phrases, and the generic warning package for every
\* other text
C28_WarnIsRateLimitedOrWarning ==
    (/\ cl_done
     /\ ~Falsy(cl_data, "cmd") /\ cl_data["cmd"] = "warn"
     /\ "text" \in DOMAIN cl_data)
        => /\ cl_result.exc = "none"
           /\ IF ReasonAsSpecified(cl_data["text"]) # "none"
              THEN /\ cl_result.pkg.tag = "RateLimitedPackage"
                   /\ cl_result.pkg.f["type"] = ReasonAsSpecified(cl_data["text"])
              ELSE /\ cl_result.pkg.tag = "WarnPackage"
                   /\ cl_result.pkg.f["text"] = cl_data["text"]

\* C29: for a well-formed info envelope of type "invite" (from, to and
\* inviteChannel set), json_to_object returns the invite package whose sender
\* is the envelope's `from` and whose target id is the envelope's `to`
C29_InviteClassified ==
    (/\ cl_done
     /\ WellFormedInfo(cl_data)
     /\ ~Falsy(cl_data, "type") /\ cl_data["type"] = "invite"
     /\ {"from", "to", "inviteChannel"} \subseteq DOMAIN cl_data)
        => /\ cl_result.exc = "none"
           /\ cl_result.pkg.tag = "InvitePackage"
           /\ cl_result.pkg.f["from_nick"] = cl_data["from"]
           /\ cl_result.pkg.f["to_userid"] = cl_data["to"]

\* C31: json_to_object called twice in succession with the same envelope
\* gives the same outcome both times (the same package, or the same
\* exception), and the envelope it was given is as it was before the first
\* call, for every command and type
C31_ClassifyTwiceSame ==
    cl_again_done =>
        /\ cl_again.exc = cl_result.exc
        /\ cl_again.pkg = cl_result.pkg
        /\ cl_result.data = cl_data
        /\ cl_again.data = cl_data

(***************************************************************************)
(* The nickname specification: verifyNick applied to a string drawn from   *)
(* the short strings over a small alphabet and from strings around the     *)
(* length limit.                                                           *)
(***************************************************************************)

\* letters, digits and the underscore, and three characters that are none
NickAlphabet == {"a", "Z", "0", "9", "_", "-", " ", "!"}
\* the longest string drawn from NickAlphabet
MaxNickInput == 2

\* the string of n times the character c
Run(c, n) == [i \in 1..n |-> c]

NickInputs ==
    SeqsUpTo(NickAlphabet, MaxNickInput)
        \cup {Run("a", n) : n \in (MaxNickLen - 1)..(MaxNickLen + 1)}
        \cup {Append(Run("a", MaxNickLen - 1), "-")}

InitNick ==
    /\ BotInit
    /\ RunInit
    /\ remaining = 0
    /\ lastop = NoOp
    /\ nops = 0
    /\ cl_data = <<>>
    /\ cl_result = Raise("none", <<>>)
    /\ cl_done = FALSE
    /\ cl_again = Raise("none", <<>>)
    /\ cl_again_done = FALSE
    /\ CallIdle
    /\ nick_arg \in NickInputs
    /\ nick_ok = FALSE
    /\ nick_done = FALSE

\* nick_ok = verifyNick(nick_arg)
VerifyNick ==
    /\ ~nick_done
    /\ nick_ok' = verifyNick(nick_arg)
    /\ nick_done' = TRUE
    /\ UNCHANGED <<nick_arg, lastop, nops, classifyVars, callVars>>
    /\ UNCHANGED botVars
    /\ UNCHANGED runVars

NextNick == VerifyNick

SpecNick == InitNick /\ [][NextNick]_vars

\* C30: verifyNick gives True exactly for the strings of 1 to 24 characters
\* that are all letters, digits or underscores, and False for every other
\* string: the empty string, a longer string, a string with another
\* character
C30_VerifyNickAsSpecified ==
    nick_done => (nick_ok <=> NickAsSpecified(nick_arg))

(***************************************************************************)
(* The router specification: the _internal_handler task of one chat or     *)
(* whisper event, from the moment Bot.run has dispatched the event and is  *)
(* suspended in recv().  The text, the sender, the command table and the   *)
(* roster are drawn from small sets.                                       *)
(***************************************************************************)

RouterChars == {"a", "b", " "}
\* the longest text drawn from RouterChars
MaxTextLen == 3

Text_a_b_ == <<"a", " ", "b", " ">>
Text_a_bb == <<"a", " ", "b", "b">>
Prefix_ab == <<"a", "b">>

RouterTexts == SeqsUpTo(RouterChars, MaxTextLen) \cup {Text_a_b_c, Text_a_b_, Text_a_bb}
RouterPrefixes == {Prefix_a, Prefix_a_b, Prefix_ab}

\* the command tables of at most two prefixes
RouterTables ==
    {<<>>}
        \cup {<<[prefix |-> p, fn |-> "cmd1"]>> : p \in RouterPrefixes}
        \cup {<<[prefix |-> pq[1], fn |-> "cmd1"], [prefix |-> pq[2], fn |-> "cmd2"]>> :
                 pq \in {x \in RouterPrefixes \X RouterPrefixes : x[1] # x[2]}}

\* "<nick> whispered: <content>"
WhisperText(nick, content) ==
    nick \o <<" ", "w", "h", "i", "s", "p", "e", "r", "e", "d", ":", " ">> \o content

\* the envelope of a chat message, or of a whisper received, with that text
RouterEnvelope(by, nick, text) ==
    IF by = "chat" THEN Envelope("chat", nick, text)
    ELSE [FullEnvelope("info", "whisper", WhisperText(nick, text)) EXCEPT !.from = nick]

InitRouter ==
    /\ commands \in RouterTables
    /\ users \in {<<>>, <<UserA>>}
    /\ event_functions = (GLOBAL :> <<INTERNAL>>)
    /\ killed = FALSE
    /\ loaded_plugins = <<>>
    /\ \E by \in {"chat", "whisper"}, nick \in {NickA, NickC}, text \in RouterTexts :
          events = <<json_to_object(RouterEnvelope(by, nick, text)).pkg>>
    /\ tasks = <<NewTask(INTERNAL, GLOBAL, 1)>>
    /\ ready = <<1>>
    /\ log = <<LogCall(INTERNAL, GLOBAL, 1)>>
    /\ mainpc = "recv"
    /\ mainwait = TRUE
    /\ maincancel = FALSE
    /\ aborting = FALSE
    /\ remaining = 0
    /\ lastop = NoOp
    /\ nops = 0
    /\ ClassifyIdle
    /\ CallIdle

NextRouter ==
    \/ \E t \in 1..Len(tasks) : \E couts \in CmdOuts : InternalRun(t, couts)
    \/ \E t \in 1..Len(tasks), out \in ResumeOutcomes :
          \E couts \in CmdOuts : InternalResume(t, out, couts)

SpecRouter == InitRouter /\ [][NextRouter]_vars

\* the text of the routed event, its sender, and whether the roster has the
\* sender
RoutedEventText == RoutedText(events[1])
RoutedSender == events[1].f["nick"]
SenderInDirectory == \E i \in 1..Len(users) : users[i]["nick"] = RoutedSender

\* text equals P, or begins with P followed by one space
TriggersAsSpecified(text, P) ==
    \/ text = P
    \/ /\ Len(text) > Len(P)
       /\ \A i \in 1..Len(P) : text[i] = P[i]
       /\ text[Len(P) + 1] = " "

\* the log entries of the k-th command for the routed event: its invocations,
\* and the diagnostics of a sender who was not found
Invocations(k) ==
    {j \in LogIdx : IsCommandCall(log[j]) /\ log[j].prefix = commands[k].prefix}
NotFoundDiagnostics(k) ==
    {j \in LogIdx : log[j] = LogWarning(commands[k].fn, "User not found", 1)}

\* C15: the text of a chat message, or the content of a whisper received,
\* triggers the command registered under prefix P (the command is invoked,
\* or the diagnostic of an unknown sender is logged for it) if and only if
\* the text equals P or begins with P followed by one space: it is triggered
\* only then, and once _internal_handler has finished it has been triggered
\* whenever that is the case
C15_TriggerRule ==
    \A k \in 1..Len(commands) :
        /\ (Invocations(k) \cup NotFoundDiagnostics(k) # {})
               => TriggersAsSpecified(RoutedEventText, commands[k].prefix)
        /\ (tasks[1].st = "done"
                /\ TriggersAsSpecified(RoutedEventText, commands[k].prefix))
               => Invocations(k) \cup NotFoundDiagnostics(k) # {}

\* prefix `a b` has been triggered by the text `a b c` of a whisper, and
\* _internal_handler has finished without invoking prefix `ab`
C15_Witness ==
    /\ tasks[1].st = "done"
    /\ events[1].tag = "WhisperPackage"
    /\ RoutedEventText = Text_a_b_c
    /\ \E k \in 1..Len(commands) :
          commands[k].prefix = Prefix_a_b /\ Invocations(k) # {}
    /\ \E k \in 1..Len(commands) :
          commands[k].prefix = Prefix_ab /\ Invocations(k) = {}

\* C16: the argument string handed to a command is "" when the text equals
\* its prefix P, and otherwise the text without its first len(P) + 1
\* characters, for every P, also one that contains a space
C16_ArgsAfterPrefix ==
    \A j \in LogIdx :
        IsCommandCall(log[j]) =>
            log[j].args = IF RoutedEventText = log[j].prefix THEN <<>>
                          ELSE Drop(RoutedEventText, Len(log[j].prefix) + 1)

\* C17: for one chat or whisper event no command is invoked twice, and once
\* _internal_handler has gone through the command table, every command whose
\* prefix matches the text has been invoked exactly once (or, for a sender
\* who is not in the roster, logged exactly once), whether or not a command
\* invoked before it raised
C17_EveryMatchInvokedOnce ==
    \A k \in 1..Len(commands) :
        /\ Cardinality(Invocations(k)) + Cardinality(NotFoundDiagnostics(k)) <= 1
        /\ (tasks[1].st = "done"
                /\ TriggersAsSpecified(RoutedEventText, commands[k].prefix))
               => /\ Cardinality(Invocations(k)) + Cardinality(NotFoundDiagnostics(k)) = 1
                  /\ SenderInDirectory => Cardinality(Invocations(k)) = 1

\* two prefixes match the text; the command of the first was invoked and
\* raised, and the command of the second has been invoked
C17_Witness ==
    /\ Len(commands) = 2
    /\ Invocations(1) # {} /\ Invocations(2) # {}
    /\ \E j \in LogIdx : log[j] = LogWarning(commands[1].fn, "command", 1)

\* C18: when the sender of a message that triggers a command is not in the
\* roster, the command is not invoked and a diagnostic is logged for it in
\* its place; _internal_handler does not fail or stop: it goes on to the
\* commands after it and finishes
C18_UnknownSenderSkipsCommand ==
    ~SenderInDirectory =>
        /\ \A j \in LogIdx : ~IsCommandCall(log[j])
        /\ tasks[1].st \in {"new", "done"}
        /\ tasks[1].st = "done" =>
              \A k \in 1..Len(commands) :
                 TriggersAsSpecified(RoutedEventText, commands[k].prefix)
                     => Cardinality(NotFoundDiagnostics(k)) = 1

\* a chat message of a sender who is not in the (non-empty) roster matched two
\* prefixes: both diagnostics are logged and _internal_handler has finished
C18_Witness ==
    /\ ~SenderInDirectory
    /\ users # <<>>
    /\ tasks[1].st = "done"
    /\ Len(commands) = 2
    /\ NotFoundDiagnostics(1) # {} /\ NotFoundDiagnostics(2) # {}

(***************************************************************************)
(* The roster specification: the _internal_handler tasks of one event that *)
(* Bot.run has dispatched once or several times in a row, on a roster      *)
(* drawn from small sets.  The roster before the first task is kept in     *)
(* lastop.pre.                                                             *)
(***************************************************************************)

\* the longest roster drawn
MaxRoster == 2
\* how many times in a row the event is delivered, at most
MaxRepeats == 2

UserC == [UserA EXCEPT !.nick = NickC, !.userid = 2]
\* a second participant with the nickname of UserA
UserA2 == [UserA EXCEPT !.color = "blue", !.userid = 3]

Rosters == SeqsUpTo({UserA, UserC, UserA2}, MaxRoster)

\* an updateUser envelope with the keys the server sets for a colour change
UpdateColorEnvelope(nick) == [cmd |-> "updateUser", nick |-> nick, color |-> "blue"]

RosterEnvelopes ==
    {Envelope("chat", NickA, Text_a_b_c),
     Envelope("emote", NickA, <<"A", " ", "h", "i">>),
     RouterEnvelope("whisper", NickA, Text_hi),
     [cmd |-> "info", text |-> Text_hi, channel |-> <<"c">>, time |-> 0],
     [cmd |-> "info", text |-> LOCKROOM_TEXT, channel |-> <<"c">>, time |-> 0],
     [cmd |-> "warn", text |-> Text_hi],
     Envelope("join", NickA, <<>>),
     OnlineSetEnvelope,
     [OnlineSetEnvelope EXCEPT !.users = <<UserC, UserA2>>],
     Envelope("onlineAdd", NickA, <<>>),
     Envelope("onlineAdd", NickC, <<>>),
     Envelope("onlineRemove", NickA, <<>>),
     Envelope("onlineRemove", NickC, <<>>),
     UpdateColorEnvelope(NickA),
     UpdateColorEnvelope(NickC),
     [cmd |-> "updateUser", nick |-> NickC, color |-> "red", level |-> 200,
      trip |-> "t", time |-> 1, channel |-> <<"c">>],
     [cmd |-> "updateUser", color |-> "blue"]}

InitRoster ==
    /\ users \in Rosters
    /\ commands = <<>>
    /\ event_functions = (GLOBAL :> <<INTERNAL>>)
    /\ killed = FALSE
    /\ loaded_plugins = <<>>
    /\ \E data \in RosterEnvelopes, n \in 1..MaxRepeats :
          /\ events = [i \in 1..n |-> json_to_object(data).pkg]
          /\ tasks = [i \in 1..n |-> NewTask(INTERNAL, GLOBAL, i)]
          /\ ready = [i \in 1..n |-> i]
          /\ log = [i \in 1..n |-> LogCall(INTERNAL, GLOBAL, i)]
    /\ mainpc = "recv"
    /\ mainwait = TRUE
    /\ maincancel = FALSE
    /\ aborting = FALSE
    /\ remaining = 0
    /\ lastop = [NoOp EXCEPT !.op = "roster", !.pre = users]
    /\ nops = 0
    /\ ClassifyIdle
    /\ CallIdle

NextRoster == \E t \in 1..Len(tasks) : \E couts \in CmdOuts : InternalRun(t, couts)

SpecRoster == InitRoster /\ [][NextRoster]_vars

\* _internal_handler has run for the t-th delivery of the event
Handled(t) == t \in 1..Len(tasks) /\ tasks[t].st # "new"
\* _internal_handler has run for the first delivery and for no other
HandledOnce == Handled(1) /\ ~Handled(2)
RosterBefore == lastop.pre
\* the participant that get_user_by_nick locates: the first with that nickname
Located(us, i, nick) ==
    /\ i \in 1..Len(us)
    /\ us[i]["nick"] = nick
    /\ \A j \in 1..(i - 1) : us[j]["nick"] # nick

\* C21: an event of a variant other than the roster snapshot, a user joining,
\* a user leaving and a user update leaves the roster as it was, however many
\* times it is handled
C21_OnlyRosterEventsChangeRoster ==
    (Handled(1)
        /\ events[1].tag \notin {"OnlineSetPackage", "OnlineAddPackage",
                                 "OnlineRemovePackage", "UpdateUserPackage"})
        => users = RosterBefore

\* a chat message has been handled on a roster of two participants
C21_Witness ==
    /\ Handled(1)
    /\ events[1].tag = "ChatPackage"
    /\ Len(users) = 2

\* C22: a user update changes only the participant located by its nickname,
\* and of that participant only the fields the update carries; the fields
\* the update does not carry and every other participant are as they were;
\* an update whose nickname no participant has changes nothing, and the
\* handler finishes without failing
C22_UpdateChangesOnlyLocatedFields ==
    (HandledOnce /\ events[1].tag = "UpdateUserPackage") =>
        LET update == events[1].f
        IN  /\ tasks[1].st = "done"
            /\ Len(users) = Len(RosterBefore)
            /\ \A i \in 1..Len(RosterBefore) :
                  IF "nick" \in DOMAIN update /\ Located(RosterBefore, i, update["nick"])
                  THEN /\ DOMAIN users[i] =
                              DOMAIN RosterBefore[i] \cup (DOMAIN update \cap UserFields)
                       /\ \A fld \in DOMAIN update \cap UserFields :
                              users[i][fld] = update[fld]
                       /\ \A fld \in DOMAIN RosterBefore[i] \ DOMAIN update :
                              users[i][fld] = RosterBefore[i][fld]
                  ELSE users[i] = RosterBefore[i]

\* the colour of the first of two participants was updated: the other
\* participant and the other fields of the first are as before
C22_Witness ==
    /\ HandledOnce
    /\ events[1].tag = "UpdateUserPackage"
    /\ Len(users) = 2
    /\ users[1]["color"] # RosterBefore[1]["color"]
    /\ users[1]["userid"] = RosterBefore[1]["userid"]
    /\ users[2] = RosterBefore[2]

\* C23: handling the same user update a second time leaves the roster as the
\* first handling left it
C23_UpdateTwiceIsOnce ==
    [][(/\ Handled(1)
        /\ ~Handled(2)
        /\ Len(tasks) >= 2
        /\ tasks'[2].st # "new"
        /\ events[2] = events[1]
        /\ events[1].tag = "UpdateUserPackage")
           => users' = users]_vars

\* an update that changed the roster has been handled twice
C23_Witness ==
    /\ Handled(2)
    /\ events[1].tag = "UpdateUserPackage"
    /\ events[2] = events[1]
    /\ users # RosterBefore

\* C24: a user leaving removes the participant located by the nickname and
\* no other: the participants before it keep their places and those after
\* it move up by one; when no participant has the nickname the roster is as
\* it was; in both cases the handler finishes without failing
C24_LeaveRemovesOnlyLocated ==
    (HandledOnce /\ events[1].tag = "OnlineRemovePackage") =>
        LET nick == events[1].f["nick"]
        IN  /\ tasks[1].st = "done"
            /\ IF \E i \in 1..Len(RosterBefore) : RosterBefore[i]["nick"] = nick
               THEN \E i \in 1..Len(RosterBefore) :
                       /\ Located(RosterBefore, i, nick)
                       /\ Len(users) = Len(RosterBefore) - 1
                       /\ \A j \in 1..Len(users) :
                              users[j] = IF j < i THEN RosterBefore[j]
                                         ELSE RosterBefore[j + 1]
               ELSE users = RosterBefore

\* the first of two participants has left and the second is still there
C24_Witness ==
    /\ HandledOnce
    /\ events[1].tag = "OnlineRemovePackage"
    /\ Len(RosterBefore) = 2
    /\ RosterBefore[1]["nick"] = events[1].f["nick"]
    /\ users = <<RosterBefore[2]>>

\* C40: once a user leaving with nickname n has been handled, the roster has
\* no participant with nickname n, also when the roster held that nickname
\* twice (a user joined under a nickname the roster already had, or a
\* snapshot listed it twice)
C40_LeftNicknameIsGone ==
    (Handled(1) /\ events[1].tag = "OnlineRemovePackage") =>
        \A i \in 1..Len(users) : users[i]["nick"] # events[1].f["nick"]

(***************************************************************************)
(* The self-filter specification: Bot.run with ignore_self on a stream     *)
(* that delivers one frame (cl_data, the dict Bot.run hands to             *)
(* json_to_object) once or several times, while change_nick may be called. *)
(***************************************************************************)

\* calls of change_nick in one run of the model
MaxChanges == 1

\* the payload _send_model makes of ChangeNickRequest(nick=n)
ChangeNickRequest(n) == [cmd |-> "changenick", nick |-> n]

\* the nicknames change_nick is called with
SelfNicks == {<<>>, NickN, NickA, <<"!">>}

\* self.websocket when change_nick is called: open, None, or closed so that
\* send raises ConnectionClosed
WebsocketStates == {"open", "none", "closed"}

\* await bot.change_nick(n)
ChangeNick(n, ws) ==
    /\ mainpc = "recv"
    /\ nops < MaxChanges
    /\ nops' = nops + 1
    /\ IF ~verifyNick(n)
       THEN /\ UNCHANGED <<self_nick, sent>>
            /\ lastop' = [op |-> "change_nick", name |-> n,
                          pre |-> [nick |-> self_nick, sent |-> sent],
                          ops |-> <<ws, "ValueError">>, raised |-> TRUE]
       ELSE /\ sent' = IF ws = "open" THEN Append(sent, ChangeNickRequest(n)) ELSE sent
            /\ self_nick' = IF ws = "closed" THEN self_nick ELSE n
            /\ lastop' = [op |-> "change_nick", name |-> n,
                          pre |-> [nick |-> self_nick, sent |-> sent],
                          ops |-> <<ws, IF ws = "closed" THEN "ConnectionClosed"
                                        ELSE "none">>,
                          raised |-> (ws = "closed")]
    /\ UNCHANGED loading
    /\ UNCHANGED <<classifyVars, nickVars>>
    /\ UNCHANGED botVars
    /\ UNCHANGED runVars

InitSelf ==
    /\ commands = <<>>
    /\ event_functions = Registry(<<"sync_fn">>, <<>>, {})
    /\ users = <<UserA>>
    /\ killed = FALSE
    /\ loaded_plugins = <<>>
    /\ remaining \in 1..MaxFrames
    /\ lastop = NoOp
    /\ nops = 0
    /\ RunInit
    /\ cl_data \in SelfFrames
    /\ cl_result = Raise("none", <<>>)
    /\ cl_done = FALSE
    /\ cl_again = Raise("none", <<>>)
    /\ cl_again_done = FALSE
    /\ NickIdle
    /\ CallIdle

NextSelf ==
    \/ \E more \in BOOLEAN : MainSkip(cl_data, more)
    \/ \E more \in BOOLEAN :
          \E outs \in SyncOuts(Len(HandlersFor(GLOBAL))
                               + Len(HandlersFor(Classified[cl_data].pkg.tag))) :
             MainDispatch(cl_data, outs, more)
    \/ WakeMain
    \/ \E t \in 1..Len(tasks) : \E couts \in CmdOuts : InternalRun(t, couts)
    \/ \E n \in SelfNicks, ws \in WebsocketStates : ChangeNick(n, ws)

SpecSelf == InitSelf /\ [][NextSelf]_vars

\* C32: change_nick with a string that is not a nickname as specified raises
\* ValueError, sends nothing and leaves Bot.nick as it was; with a nickname as
\* specified and an open connection it sends the request and Bot.nick is the
\* new nickname
C32_ChangeNickValidates ==
    lastop.op = "change_nick" =>
        IF ~NickAsSpecified(lastop.name)
        THEN /\ lastop.ops[2] = "ValueError"
             /\ sent = lastop.pre.sent
             /\ self_nick = lastop.pre.nick
        ELSE lastop.ops[1] = "open" =>
                 /\ lastop.ops[2] = "none"
                 /\ sent = Append(lastop.pre.sent, [cmd |-> "changenick", nick |-> lastop.name])
                 /\ self_nick = lastop.name

\* the frame is one of the five variants the nick test looks at, and its
\* nickname is n
OwnEvent(frame, n) ==
    \/ frame["cmd"] \in {"chat", "emote", "onlineAdd", "onlineRemove"} /\ frame["nick"] = n
    \/ frame["cmd"] = "info" /\ "type" \in DOMAIN frame /\ frame["type"] = "whisper"
                             /\ frame["from"] = n

\* C39: with ignore_self, a step of Bot.run that takes a chat, emote,
\* user-joined, user-left or whisper frame whose nickname is the bot's
\* nickname at that moment (the new one after change_nick) dispatches
\* nothing: no event, no task, no handler call, the roster as it was; a step
\* that takes any other frame dispatches it: the event is recorded, the
\* plain global handler is called and a task of _internal_handler is made
C39_OwnEventsDropped ==
    [][remaining' < remaining =>
          IF OwnEvent(cl_data, self_nick)
          THEN /\ events' = events
               /\ tasks' = tasks
               /\ log' = log
               /\ users' = users
          ELSE /\ Len(events') = Len(events) + 1
               /\ events'[Len(events')].tag = json_to_object(cl_data).pkg.tag
               /\ Len(tasks') = Len(tasks) + 1
               /\ tasks'[Len(tasks')].fn = INTERNAL
               /\ tasks'[Len(tasks')].ev = Len(events')
               /\ \E j \in 1..Len(log') : log'[j] = LogStart("sync_fn", GLOBAL, Len(events'))]_vars

\* change_nick has given the bot the nickname N, a user-joined frame of
\* nickname N has arrived twice, and nothing was dispatched for it: the
\* roster is as it was
C39_Witness ==
    /\ self_nick = NickN
    /\ cl_data["cmd"] = "onlineAdd" /\ cl_data["nick"] = NickN
    /\ remaining = 0
    /\ events = <<>>
    /\ users = <<UserA>>

(***************************************************************************)
(* The plugin specification: registrations by the host, load_plugin and    *)
(* unload_plugin.  init_function is the list of registrations it makes on  *)
(* the bot before it returns or raises; load_plugin with it runs without   *)
(* any other registration in between.                                      *)
(***************************************************************************)

PluginNames == {"x", "y"}
\* the functions the host registers: "h" is its own, "x" is one it takes from
\* the module of plugin x; a plugin registers the function of its own name
HandlerFns == {"h", "x"}
Prefixes == {Prefix_a, Prefix_a_b}
Selectors == {GLOBAL, "ChatPackage"}

\* the longest handler list and the most registrations of one init function
MaxHandlers == 3
MaxInitOps == 1
\* registrations, loads and unloads in one run of the model
MaxOps == 3

\* list(self.commands.keys()), as a set
CommandKeys(cmds) == {cmds[i].prefix : i \in 1..Len(cmds)}

CommandIndex(cmds, prefix) == CHOOSE i \in 1..Len(cmds) : cmds[i].prefix = prefix

\* self.commands[prefix] = function as if the table were a list of pairs
SetCommandAppend(cmds, prefix, fn) == Append(cmds, [prefix |-> prefix, fn |-> fn])

\* self.commands[prefix] = function: a dict keeps the place of a key it has
SetCommand(cmds, prefix, fn) ==
    IF prefix \in CommandKeys(cmds)
    THEN [cmds EXCEPT ![CommandIndex(cmds, prefix)].fn = fn]
    ELSE Append(cmds, [prefix |-> prefix, fn |-> fn])

\* del self.commands[prefix]
DelCommand(cmds, prefix) == RemoveAt(cmds, CommandIndex(cmds, prefix))

\* register_event_function on the dict ef
AddHandler(ef, sel, fn) ==
    IF sel \in DOMAIN ef
    THEN [ef EXCEPT ![sel] = Append(ef[sel], fn)]
    ELSE [x \in DOMAIN ef \cup {sel} |-> IF x = sel THEN <<fn>> ELSE ef[x]]

\* a remove that takes the head of the list whatever fn is
RemoveHead(l, fn) == Tail(l)

\* list.remove(fn): the first occurrence goes
RemoveFirst(l, fn) ==
    RemoveAt(l, CHOOSE i \in 1..Len(l) : l[i] = fn /\ \A j \in 1..(i - 1) : l[j] # fn)

\* one registration an init function makes: bot.register_command(key, fn) /
\* @bot.command(key), or bot.register_event_function(key, fn)
InitOps(name) ==
    [kind : {"command"}, key : Prefixes, fn : {name}]
        \cup [kind : {"handler"}, key : Selectors, fn : {name}]

\* an init function whose registrations do not reach the bot
RunInitFunctionUndone(reg, ops, i) == reg

\* the registry [commands, event_functions] after the registrations of an
\* init function, from the i-th on
RECURSIVE RunInitFunction(_, _, _)
RunInitFunction(reg, ops, i) ==
    IF i > Len(ops) THEN reg
    ELSE RunInitFunction(
             IF ops[i].kind = "command"
             THEN [reg EXCEPT !.commands = SetCommand(reg.commands, ops[i].key, ops[i].fn)]
             ELSE [reg EXCEPT !.event_functions =
                                  AddHandler(reg.event_functions, ops[i].key, ops[i].fn)],
             ops, i + 1)

\* does the registry stay within the model's list length
WithinBounds(reg) ==
    \A sel \in DOMAIN reg.event_functions : Len(reg.event_functions[sel]) <= MaxHandlers

\* new_commands as if every command present after init were the plugin's
NewCommandsAll(cmds, commands_before) == CommandKeys(cmds)

\* new_commands = list(commands_after - commands_before)
NewCommands(cmds, commands_before) == CommandKeys(cmds) \ commands_before

\* new_handlers with the slice taken one place too far
NewHandlersOffByOne(ef, event_handlers_before) ==
    LET before(sel) == IF sel \in DOMAIN event_handlers_before
                       THEN event_handlers_before[sel] ELSE 0
    IN  [sel \in {x \in DOMAIN ef : Len(ef[x]) > before(x)} |->
            SubSeq(ef[sel], before(sel) + 2, Len(ef[sel]))]

\* new_handlers[event_type] = handlers[before_count:] where the list has grown
NewHandlers(ef, event_handlers_before) ==
    LET before(sel) == IF sel \in DOMAIN event_handlers_before
                       THEN event_handlers_before[sel] ELSE 0
    IN  [sel \in {x \in DOMAIN ef : Len(ef[x]) > before(x)} |->
            SubSeq(ef[sel], before(sel) + 1, Len(ef[sel]))]

\* the commands after unload_plugin's loop over plugin_info["commands"]
RECURSIVE UnloadCommands(_, _)
UnloadCommands(cmds, prefixes) ==
    IF prefixes = {} THEN cmds
    ELSE LET p == CHOOSE x \in prefixes : TRUE
         IN  UnloadCommands(IF p \in CommandKeys(cmds) THEN DelCommand(cmds, p) ELSE cmds,
                            prefixes \ {p})

\* one handler list after unload_plugin's loop over a plugin's handlers of it
RECURSIVE UnloadHandlerList(_, _, _)
UnloadHandlerList(l, handlers, i) ==
    IF i > Len(handlers) THEN l
    ELSE UnloadHandlerList(
             IF \E j \in 1..Len(l) : l[j] = handlers[i]
             THEN RemoveFirst(l, handlers[i]) ELSE l,
             handlers, i + 1)

\* the event_functions after unload_plugin's loop over plugin_info["handlers"]
UnloadHandlers(ef, handlers) ==
    [sel \in DOMAIN ef |->
        IF sel \in DOMAIN handlers THEN UnloadHandlerList(ef[sel], handlers[sel], 1)
        ELSE ef[sel]]

\* the registry and the plugin records, for lastop
Snapshot ==
    [commands |-> commands, event_functions |-> event_functions,
     loaded_plugins |-> loaded_plugins]

\* what an init function raises when it fails
InitExceptions == {"RuntimeError", "CancelledError"}
\* what __import__(plugin_name) and the module it gives may be like when
\* load_plugin cannot call plugin_init: the import raises ImportError or
\* another exception, the module has no plugin_init, or it is not callable
ImportOutcomes == {"ImportError", "SyntaxError", "no_plugin_init", "not_callable"}

\* the bare `except:` around the call of the init function
InitCaught(exc) == exc \in InitExceptions
\* `except ImportError:` around __import__
ImportCaught(exc) == exc = "ImportError"

\* load_plugin writing its record whether or not init returned
StoreRecordAlways(lp, name, rec, returned) ==
    [n \in DOMAIN lp \cup {name} |-> IF n = name THEN rec ELSE lp[n]]

\* self.loaded_plugins after load_plugin: the `return` of each failure comes
\* before self.loaded_plugins[plugin_name] = {...}
StoreRecord(lp, name, rec, returned) ==
    IF returned
    THEN [n \in DOMAIN lp \cup {name} |-> IF n = name THEN rec ELSE lp[n]]
    ELSE lp

\* bot.register_command(prefix, fn), @bot.command(prefix), by the host
RegisterCommand(prefix, fn) ==
    /\ nops < MaxOps
    /\ nops' = nops + 1
    /\ commands' = SetCommand(commands, prefix, fn)
    /\ lastop' = [op |-> "register_command", name |-> "", pre |-> Snapshot,
                  ops |-> <<[kind |-> "command", key |-> prefix, fn |-> fn]>>,
                  raised |-> FALSE]
    /\ UNCHANGED <<event_functions, users, killed, loaded_plugins>>
    /\ UNCHANGED runVars
    /\ UNCHANGED <<classifyVars, nickVars, callVars>>

\* bot.register_event_function(sel, fn), bot.register_global_function(fn), by
\* the host
RegisterEventFunction(sel, fn) ==
    /\ nops < MaxOps
    /\ nops' = nops + 1
    /\ Len(HandlersFor(sel)) < MaxHandlers
    /\ event_functions' = AddHandler(event_functions, sel, fn)
    /\ lastop' = NoOp
    /\ UNCHANGED <<commands, users, killed, loaded_plugins>>
    /\ UNCHANGED runVars
    /\ UNCHANGED <<classifyVars, nickVars, callVars>>

\* the registry after init's registrations and the record load_plugin makes
\* of them
LoadOutcome(ops) ==
    LET commands_before == CommandKeys(commands)
        event_handlers_before == [sel \in DOMAIN event_functions |->
                                      Len(event_functions[sel])]
        reg == RunInitFunction([commands |-> commands,
                                event_functions |-> event_functions], ops, 1)
    IN  [reg |-> reg,
         rec |-> [commands |-> NewCommands(reg.commands, commands_before),
                  handlers |-> NewHandlers(reg.event_functions, event_handlers_before)]]

\* await bot.load_plugin(name, init) where init returns
LoadPlugin(name, ops) ==
    LET r == LoadOutcome(ops)
    IN  /\ WithinBounds(r.reg)
        /\ nops < MaxOps
        /\ nops' = nops + 1
        /\ commands' = r.reg.commands
        /\ event_functions' = r.reg.event_functions
        /\ loaded_plugins' = StoreRecord(loaded_plugins, name, r.rec, TRUE)
        /\ lastop' = [op |-> "load", name |-> name, pre |-> Snapshot, ops |-> ops,
                      raised |-> FALSE]
        /\ UNCHANGED <<users, killed>>
        /\ UNCHANGED runVars
        /\ UNCHANGED <<classifyVars, nickVars, callVars>>

\* await bot.load_plugin(name, init) where init raises exc after the
\* registrations ops
LoadPluginFails(name, ops, exc) ==
    LET r == LoadOutcome(ops)
    IN  /\ WithinBounds(r.reg)
        /\ nops < MaxOps
        /\ nops' = nops + 1
        /\ commands' = r.reg.commands
        /\ event_functions' = r.reg.event_functions
        /\ loaded_plugins' = StoreRecord(loaded_plugins, name, r.rec, ~InitCaught(exc))
        /\ lastop' = [op |-> "init_raises", name |-> name, pre |-> Snapshot,
                      ops |-> ops, raised |-> ~InitCaught(exc)]
        /\ UNCHANGED <<users, killed>>
        /\ UNCHANGED runVars
        /\ UNCHANGED <<classifyVars, nickVars, callVars>>

\* await bot.load_plugin(name) where the module cannot be imported, or has no
\* callable plugin_init: nothing is registered
LoadPluginNoInit(name, outcome) ==
    /\ nops < MaxOps
    /\ nops' = nops + 1
    /\ lastop' = [op |-> outcome, name |-> name, pre |-> Snapshot, ops |-> <<>>,
                  raised |-> outcome \in {"ImportError", "SyntaxError"}
                                 /\ ~ImportCaught(outcome)]
    /\ UNCHANGED botVars
    /\ UNCHANGED runVars
    /\ UNCHANGED <<classifyVars, nickVars, callVars>>

\* unload_plugin with the test for the record left out: the plugin loaded
\* first is unloaded in place of one that has no record
UnloadTargetAny(lp, name) ==
    IF name \in DOMAIN lp \/ DOMAIN lp = {} THEN name
    ELSE CHOOSE n \in DOMAIN lp : TRUE

\* the record unload_plugin works on: that of plugin_name, if there is one
UnloadTarget(lp, name) == name

\* The loops over self.commands.items() that are suspended, after the
\* entries of the prefixes have been deleted: a deleted entry leaves a gap
\* the iterator steps over, so a loop stays at the entry it was at, which now
\* stands as many places earlier as entries before it are gone
SkipDeleted(ts, cmds, prefixes) ==
    [t \in 1..Len(ts) |->
        IF ts[t].fn = INTERNAL /\ ts[t].st \in {"waiting", "interrupted", "blocked"}
        THEN LET gone == Cardinality({i \in 1..ts[t].pos : cmds[i].prefix \in prefixes})
             IN  [ts[t] EXCEPT !.pos = ts[t].pos - gone, !.lim = ts[t].lim - gone]
        ELSE ts[t]]

\* bot.unload_plugin(name)
UnloadPlugin(name) ==
    /\ nops < MaxOps
    /\ nops' = nops + 1
    /\ LET target == UnloadTarget(loaded_plugins, name)
       IN  IF target \notin DOMAIN loaded_plugins
           THEN UNCHANGED <<commands, event_functions, loaded_plugins, tasks>>
           ELSE LET plugin_info == loaded_plugins[target]
                IN  /\ commands' = UnloadCommands(commands, plugin_info.commands)
                    /\ tasks' = SkipDeleted(tasks, commands, plugin_info.commands)
                    /\ event_functions' =
                           UnloadHandlers(event_functions, plugin_info.handlers)
                    /\ loaded_plugins' = [n \in DOMAIN loaded_plugins \ {target} |->
                                             loaded_plugins[n]]
    /\ lastop' = IF lastop.op = "load" /\ lastop.name = name
                 THEN [lastop EXCEPT !.op = "roundtrip"]
                 ELSE [op |-> "unload", name |-> name, pre |-> Snapshot, ops |-> <<>>,
                       raised |-> FALSE]
    /\ UNCHANGED <<users, killed>>
    /\ UNCHANGED <<mainpc, mainwait, maincancel, aborting, ready, events, remaining, log>>
    /\ UNCHANGED <<classifyVars, nickVars, callVars>>

InitPlugin ==
    /\ BotInit
    /\ RunInit
    /\ remaining = 0
    /\ ClassifyIdle
    /\ CallIdle
    /\ lastop = NoOp
    /\ nops = 0

NextPlugin ==
    \/ \E prefix \in Prefixes, fn \in HandlerFns : RegisterCommand(prefix, fn)
    \/ \E sel \in Selectors, fn \in HandlerFns : RegisterEventFunction(sel, fn)
    \/ \E name \in PluginNames : \E ops \in SeqsUpTo(InitOps(name), MaxInitOps) :
          LoadPlugin(name, ops)
    \/ \E name \in PluginNames, exc \in InitExceptions :
          \E ops \in SeqsUpTo(InitOps(name), MaxInitOps) : LoadPluginFails(name, ops, exc)
    \/ \E name \in PluginNames, outcome \in ImportOutcomes : LoadPluginNoInit(name, outcome)
    \/ \E name \in PluginNames : UnloadPlugin(name)

SpecPlugin == InitPlugin /\ [][NextPlugin]_vars

\* the handlers registered under sel in the dict ef
ListOf(ef, sel) == IF sel \in DOMAIN ef THEN ef[sel] ELSE <<>>

\* C9: after a successful load_plugin(name, init) followed at once by
\* unload_plugin(name), every command and every handler registered before the
\* load is registered as it was, in the same order, and nothing else is
C9_RoundTripRestoresRegistry ==
    lastop.op = "roundtrip" =>
        /\ commands = lastop.pre.commands
        /\ \A sel \in Selectors :
              ListOf(event_functions, sel) = ListOf(lastop.pre.event_functions, sel)

\* C10: right after a successful load_plugin(name, init) the record stored
\* under name holds the command prefixes present now that were not present
\* before the load and, for each selector, the handlers at the places beyond
\* the length its list had before the load (0 for a selector that did not
\* exist), and no other selector
C10_RecordIsTheDifference ==
    lastop.op = "load" =>
        LET rec == loaded_plugins[lastop.name]
            pre == lastop.pre
        IN  /\ rec.commands =
                   {commands[i].prefix : i \in 1..Len(commands)}
                       \ {pre.commands[i].prefix : i \in 1..Len(pre.commands)}
            /\ DOMAIN rec.handlers \subseteq DOMAIN event_functions
            /\ \A sel \in DOMAIN event_functions :
                  ListOf(rec.handlers, sel) =
                      SubSeq(event_functions[sel],
                             Len(ListOf(pre.event_functions, sel)) + 1,
                             Len(event_functions[sel]))
            /\ \A sel \in DOMAIN rec.handlers : rec.handlers[sel] # <<>>

\* a plugin has just been loaded into a registry that had a command, and its
\* init registered a handler under a selector that did not exist
C10_Witness ==
    /\ lastop.op = "load"
    /\ lastop.pre.commands # <<>>
    /\ \E sel \in DOMAIN loaded_plugins[lastop.name].handlers :
          sel \notin DOMAIN lastop.pre.event_functions

\* the loads that end before a record is written: init raised, or the module
\* has no plugin_init, or one that is not callable
FailedLoads == {"init_raises", "no_plugin_init", "not_callable"}

\* C11: when load_plugin's init function raises, or the module has no
\* plugin_init or one that is not callable, load_plugin returns to its caller
\* without raising, and the plugin records are what they were before: a name
\* that had no record has none
C11_FailedLoadStoresNoRecord ==
    lastop.op \in FailedLoads =>
        /\ ~lastop.raised
        /\ DOMAIN loaded_plugins = DOMAIN lastop.pre.loaded_plugins
        /\ \A n \in DOMAIN loaded_plugins : loaded_plugins[n] = lastop.pre.loaded_plugins[n]
        /\ lastop.name \notin DOMAIN lastop.pre.loaded_plugins =>
               lastop.name \notin DOMAIN loaded_plugins

\* the init function of a plugin has just raised after a registration, while
\* another plugin was loaded and this one was not
C11_Witness ==
    /\ lastop.op = "init_raises"
    /\ lastop.ops # <<>>
    /\ DOMAIN loaded_plugins # {}
    /\ lastop.name \notin DOMAIN loaded_plugins

\* the functions ops registers as handlers under sel, in order
HandlerOpsOf(ops, sel) ==
    LET hs == SelectSeq(ops, LAMBDA o : o.kind = "handler" /\ o.key = sel)
    IN  [i \in 1..Len(hs) |-> hs[i].fn]

\* the function prefix is mapped to in cmds
CommandFn(cmds, prefix) == cmds[CommandIndex(cmds, prefix)].fn

\* C12: after load_plugin whose init function raised, every registration the
\* init function had made is still there: each prefix it registered is in the
\* command table, mapped to the function of its last registration; each
\* handler list is the list before the load followed by the handlers it
\* registered; nothing registered before is gone.  No record covers them: the
\* plugin records are unchanged, and none names a prefix the init function
\* added to the table
C12_FailedInitKeepsRegistrations ==
    lastop.op = "init_raises" =>
        LET ops == lastop.ops
            pre == lastop.pre
        IN  /\ \A i \in 1..Len(ops) :
                  (ops[i].kind = "command"
                       /\ \A j \in (i + 1)..Len(ops) :
                             ~(ops[j].kind = "command" /\ ops[j].key = ops[i].key))
                  => /\ ops[i].key \in CommandKeys(commands)
                     /\ CommandFn(commands, ops[i].key) = ops[i].fn
            /\ CommandKeys(pre.commands) \subseteq CommandKeys(commands)
            /\ \A sel \in Selectors :
                  ListOf(event_functions, sel) =
                      ListOf(pre.event_functions, sel) \o HandlerOpsOf(ops, sel)
            /\ DOMAIN loaded_plugins = DOMAIN pre.loaded_plugins
            /\ \A n \in DOMAIN loaded_plugins :
                  /\ loaded_plugins[n] = pre.loaded_plugins[n]
                  /\ loaded_plugins[n].commands
                         \cap (CommandKeys(commands) \ CommandKeys(pre.commands)) = {}

\* an init function has raised after registering a command under a new prefix,
\* with a plugin loaded before
C12_Witness ==
    /\ lastop.op = "init_raises"
    /\ \E i \in 1..Len(lastop.ops) :
          /\ lastop.ops[i].kind = "command"
          /\ lastop.ops[i].key \notin CommandKeys(lastop.pre.commands)
    /\ DOMAIN loaded_plugins # {}

\* C13: with plugin A's record naming prefix P (A registered P when it was not
\* in the table), (1) after load_plugin(B) whose init registers P, followed by
\* unload_plugin(B), P is still in the command table, mapped to B's function,
\* and still named by A's record; (2) unload_plugin(A) while P is mapped to the
\* function of another plugin B removes P from the command table
C13_SharedPrefix ==
    /\ lastop.op = "roundtrip" =>
          \A A \in DOMAIN lastop.pre.loaded_plugins \ {lastop.name} :
             \A P \in lastop.pre.loaded_plugins[A].commands :
                (\E i \in 1..Len(lastop.ops) :
                    lastop.ops[i].kind = "command" /\ lastop.ops[i].key = P)
                => /\ P \in CommandKeys(commands)
                   /\ CommandFn(commands, P) = lastop.name
                   /\ A \in DOMAIN loaded_plugins
                   /\ P \in loaded_plugins[A].commands
    /\ (lastop.op = "unload" /\ lastop.name \in DOMAIN lastop.pre.loaded_plugins) =>
          \A P \in lastop.pre.loaded_plugins[lastop.name].commands :
             (/\ P \in CommandKeys(lastop.pre.commands)
              /\ CommandFn(lastop.pre.commands, P) \in PluginNames \ {lastop.name})
             => P \notin CommandKeys(commands)

\* A and B were loaded in that order, both registered P, and A has just been
\* unloaded: P, which was mapped to B's function, is gone
C13_Witness ==
    /\ lastop.op = "unload"
    /\ lastop.name \in DOMAIN lastop.pre.loaded_plugins
    /\ \E B \in DOMAIN lastop.pre.loaded_plugins \ {lastop.name} :
          \E P \in lastop.pre.loaded_plugins[lastop.name].commands :
             /\ P \in CommandKeys(lastop.pre.commands)
             /\ CommandFn(lastop.pre.commands, P) = B
             /\ P \notin CommandKeys(commands)

\* C14: unload_plugin(name) for a name that has no record leaves the command
\* table, the handler registry and the plugin records as they were, and does
\* not raise
C14_UnloadWithoutRecordIsNoOp ==
    (lastop.op = "unload" /\ lastop.name \notin DOMAIN lastop.pre.loaded_plugins) =>
        /\ commands = lastop.pre.commands
        /\ event_functions = lastop.pre.event_functions
        /\ DOMAIN loaded_plugins = DOMAIN lastop.pre.loaded_plugins
        /\ \A n \in DOMAIN loaded_plugins : loaded_plugins[n] = lastop.pre.loaded_plugins[n]
        /\ ~lastop.raised

\* unload_plugin has just been called for a name without a record while
\* another plugin, which registered a command, was loaded
C14_Witness ==
    /\ lastop.op = "unload"
    /\ lastop.name \notin DOMAIN lastop.pre.loaded_plugins
    /\ \E n \in DOMAIN loaded_plugins : loaded_plugins[n].commands # {}

\* C19: no prefix is in the command table twice; and right after
\* register_command(prefix, fn) the prefix is mapped to fn, every other prefix
\* is mapped to what it was mapped to, no prefix has come or gone but this
\* one, and nothing was raised
C19_LastWriterWins ==
    /\ \A i, j \in 1..Len(commands) : commands[i].prefix = commands[j].prefix => i = j
    /\ lastop.op = "register_command" =>
          LET o == lastop.ops[1]
              pre == lastop.pre.commands
          IN  /\ o.key \in CommandKeys(commands)
              /\ \A i \in 1..Len(commands) : commands[i].prefix = o.key => commands[i].fn = o.fn
              /\ CommandKeys(commands) = CommandKeys(pre) \cup {o.key}
              /\ \A P \in CommandKeys(pre) \ {o.key} :
                    CommandFn(commands, P) = CommandFn(pre, P)
              /\ ~lastop.raised

\* a prefix that was registered has just been registered again with another
\* function, with another prefix in the table
C19_Witness ==
    /\ lastop.op = "register_command"
    /\ lastop.ops[1].key \in CommandKeys(lastop.pre.commands)
    /\ CommandFn(lastop.pre.commands, lastop.ops[1].key) # lastop.ops[1].fn
    /\ Len(commands) = 2

\* the registrations of commands the init function of the last load made
InitCommandOps == {i \in 1..Len(lastop.ops) : lastop.ops[i].kind = "command"}

\* C33: after a successful load_plugin(name, init) followed by
\* unload_plugin(name), no prefix of the command table maps to the function
\* init registered under it, also when the prefix was registered before the
\* load (to another function) and init overrode it
C33_UnloadRemovesOverrides ==
    lastop.op = "roundtrip" =>
        \A i \in InitCommandOps :
            (\A k \in 1..Len(lastop.pre.commands) :
                 lastop.pre.commands[k] #
                     [prefix |-> lastop.ops[i].key, fn |-> lastop.ops[i].fn])
                => \A k \in 1..Len(commands) :
                       commands[k] # [prefix |-> lastop.ops[i].key, fn |-> lastop.ops[i].fn]

\* C35: after load_plugin(name), load_plugin(name) again and
\* unload_plugin(name), none of the commands and handlers the record of the
\* first load held is registered any more
C35_SecondLoadKeepsFirstCovered ==
    (lastop.op = "roundtrip" /\ lastop.name \in DOMAIN lastop.pre.loaded_plugins) =>
        LET first == lastop.pre.loaded_plugins[lastop.name]
        IN  /\ \A k \in 1..Len(commands) : commands[k].prefix \notin first.commands
            /\ \A sel \in DOMAIN first.handlers :
                   \A j \in 1..Len(ListOf(event_functions, sel)) :
                       \A i \in 1..Len(first.handlers[sel]) :
                           event_functions[sel][j] # first.handlers[sel][i]

\* C38: after any registrations, loads and unloads the global handler list
\* exists and its first entry is _internal_handler
C38_InternalHandlerStaysFirst ==
    /\ GLOBAL \in DOMAIN event_functions
    /\ event_functions[GLOBAL] # <<>>
    /\ event_functions[GLOBAL][1] = INTERNAL

\* a plugin whose init registered a global handler has been unloaded from a
\* registry in which the host had registered a global handler as well
C38_Witness ==
    /\ lastop.op = "roundtrip"
    /\ Len(lastop.pre.event_functions[GLOBAL]) >= 2
    /\ \E i \in 1..Len(lastop.ops) :
          lastop.ops[i].kind = "handler" /\ lastop.ops[i].key = GLOBAL
    /\ Len(event_functions[GLOBAL]) = Len(lastop.pre.event_functions[GLOBAL])

(***************************************************************************)
(* The suspended-load specification: load_plugin with a coroutine init     *)
(* function that awaits, so that registrations, loads and unloads of other *)
(* coroutines run before it resumes. The host has registered up to two     *)
(* ChatPackage handlers before.                                            *)
(***************************************************************************)

\* load_plugin calls suspended in their init function at one time
MaxSuspended == 1
\* ChatPackage handlers the host has registered at the start
MaxHostHandlers == 2

\* await bot.load_plugin(name, init) up to the await at which the coroutine
\* function init suspends, after its registrations ops: the frame keeps
\* commands_before and event_handlers_before
LoadPluginSuspends(name, ops) ==
    LET reg == RunInitFunction([commands |-> commands,
                                event_functions |-> event_functions], ops, 1)
    IN  /\ Len(loading) < MaxSuspended
        /\ WithinBounds(reg)
        /\ nops < MaxOps
        /\ nops' = nops + 1
        /\ commands' = reg.commands
        /\ event_functions' = reg.event_functions
        /\ loading' = Append(loading,
                             [name |-> name, ops |-> ops,
                              commands_before |-> CommandKeys(commands),
                              event_handlers_before |->
                                  [sel \in DOMAIN event_functions |->
                                      Len(event_functions[sel])]])
        /\ lastop' = [op |-> "load_suspended", name |-> name, pre |-> Snapshot,
                      ops |-> ops, raised |-> FALSE]
        /\ UNCHANGED <<users, killed, loaded_plugins, self_nick, sent>>
        /\ UNCHANGED runVars
        /\ UNCHANGED <<classifyVars, nickVars>>

\* the i-th suspended load_plugin resumes: init makes the registrations rest
\* and returns, and load_plugin writes the record from the table and the
\* lists as they are now
LoadPluginResumes(i, rest) ==
    /\ i \in 1..Len(loading)
    /\ LET f == loading[i]
           reg == RunInitFunction([commands |-> commands,
                                   event_functions |-> event_functions], rest, 1)
           rec == [commands |-> NewCommands(reg.commands, f.commands_before),
                   handlers |-> NewHandlers(reg.event_functions, f.event_handlers_before)]
       IN  /\ rest \in SeqsUpTo(InitOps(f.name), MaxInitOps)
           /\ Len(f.ops) + Len(rest) <= MaxInitOps
           /\ WithinBounds(reg)
           /\ commands' = reg.commands
           /\ event_functions' = reg.event_functions
           /\ loaded_plugins' = StoreRecord(loaded_plugins, f.name, rec, TRUE)
           /\ lastop' = [op |-> "load_resumed", name |-> f.name, pre |-> Snapshot,
                         ops |-> f.ops \o rest, raised |-> FALSE]
    /\ loading' = RemoveAt(loading, i)
    /\ UNCHANGED <<users, killed, self_nick, sent, nops>>
    /\ UNCHANGED runVars
    /\ UNCHANGED <<classifyVars, nickVars>>

InitLoad ==
    /\ commands = <<>>
    /\ event_functions \in {Registry(<<>>, tl, {"ChatPackage"}) :
                               tl \in SeqsUpTo(HandlerFns, MaxHostHandlers)}
    /\ users = <<>>
    /\ killed = FALSE
    /\ loaded_plugins = <<>>
    /\ RunInit
    /\ remaining = 0
    /\ ClassifyIdle
    /\ CallIdle
    /\ lastop = NoOp
    /\ nops = 0

NextLoad ==
    \/ \E prefix \in Prefixes, fn \in HandlerFns : RegisterCommand(prefix, fn)
    \/ \E sel \in Selectors, fn \in HandlerFns : RegisterEventFunction(sel, fn)
    \/ \E name \in PluginNames : \E ops \in SeqsUpTo(InitOps(name), MaxInitOps) :
          LoadPlugin(name, ops)
    \/ \E name \in PluginNames : \E ops \in SeqsUpTo(InitOps(name), MaxInitOps) :
          LoadPluginSuspends(name, ops)
    \/ \E i \in 1..MaxSuspended : \E name \in PluginNames :
          \E rest \in SeqsUpTo(InitOps(name), MaxInitOps) : LoadPluginResumes(i, rest)
    \/ \E name \in PluginNames : UnloadPlugin(name)

SpecLoad == InitLoad /\ [][NextLoad]_vars

\* C34: the record a load writes, also one whose init function was suspended
\* while other registrations, loads and unloads ran, holds only command
\* prefixes its init function registered and, under each selector, only
\* handlers its init function registered there, and no more of them
C34_RecordHoldsOwnRegistrations ==
    lastop.op \in {"load", "load_resumed"} =>
        LET rec == loaded_plugins[lastop.name]
            own(kind, key) == {i \in 1..Len(lastop.ops) :
                                  lastop.ops[i].kind = kind /\ lastop.ops[i].key = key}
        IN  /\ \A p \in rec.commands : own("command", p) # {}
            /\ \A sel \in DOMAIN rec.handlers :
                  /\ Len(rec.handlers[sel]) <= Cardinality(own("handler", sel))
                  /\ \A j \in 1..Len(rec.handlers[sel]) :
                        \E i \in own("handler", sel) : lastop.ops[i].fn = rec.handlers[sel][j]

\* is s the tail of l
IsTail(s, l) ==
    /\ Len(s) <= Len(l)
    /\ SubSeq(l, Len(l) - Len(s) + 1, Len(l)) = s

\* C37: a step of unload_plugin whose record holds, under a selector, the
\* entries at the tail of that selector's list takes those tail entries away
\* and leaves the entries before them in their order, also when one of the
\* functions stands earlier in the list as well; the list of a selector the
\* record does not hold stays as it is
C37_UnloadTakesTheTail ==
    [][\A name \in DOMAIN loaded_plugins \ DOMAIN loaded_plugins' :
          LET handlers == loaded_plugins[name].handlers
          IN  \A sel \in DOMAIN event_functions :
                 /\ sel \in DOMAIN event_functions'
                 /\ sel \notin DOMAIN handlers =>
                        event_functions'[sel] = event_functions[sel]
                 /\ (sel \in DOMAIN handlers /\ IsTail(handlers[sel], event_functions[sel])) =>
                        event_functions'[sel] =
                            SubSeq(event_functions[sel], 1,
                                   Len(event_functions[sel]) - Len(handlers[sel]))]_vars

(***************************************************************************)
(* The scan specification: _internal_handler on one chat event whose text  *)
(* triggers the commands "a" and "a b", while the host registers commands  *)
(* and loads and unloads plugins at the points where a command is awaited. *)
(***************************************************************************)

\* the command table and the plugin records when the event arrives: the host
\* has registered "a", and "a b" is not registered, or registered by the
\* host, or by the init function of plugin x, or "a" is the plugin's and
\* "a b" the host's
ScanStarts ==
    {[commands |-> <<[prefix |-> Prefix_a, fn |-> "h"]>>, loaded_plugins |-> <<>>],
     [commands |-> <<[prefix |-> Prefix_a, fn |-> "h"], [prefix |-> Prefix_a_b, fn |-> "h"]>>,
      loaded_plugins |-> <<>>],
     [commands |-> <<[prefix |-> Prefix_a, fn |-> "h"], [prefix |-> Prefix_a_b, fn |-> "x"]>>,
      loaded_plugins |-> ("x" :> [commands |-> {Prefix_a_b}, handlers |-> <<>>])],
     [commands |-> <<[prefix |-> Prefix_a, fn |-> "x"], [prefix |-> Prefix_a_b, fn |-> "h"]>>,
      loaded_plugins |-> ("x" :> [commands |-> {Prefix_a}, handlers |-> <<>>])]}

InitScan ==
    /\ \E s \in ScanStarts : commands = s.commands /\ loaded_plugins = s.loaded_plugins
    /\ users = <<UserA>>
    /\ event_functions = (GLOBAL :> <<INTERNAL>>)
    /\ killed = FALSE
    /\ events = <<json_to_object(Envelope("chat", NickA, Text_a_b_c)).pkg>>
    /\ tasks = <<NewTask(INTERNAL, GLOBAL, 1)>>
    /\ ready = <<1>>
    /\ log = <<LogCall(INTERNAL, GLOBAL, 1)>>
    /\ mainpc = "recv"
    /\ mainwait = TRUE
    /\ maincancel = FALSE
    /\ aborting = FALSE
    /\ remaining = 0
    /\ lastop = NoOp
    /\ nops = 0
    /\ ClassifyIdle
    /\ CallIdle

NextScan ==
    \/ \E t \in 1..Len(tasks) : \E couts \in CmdOuts : InternalRun(t, couts)
    \/ \E t \in 1..Len(tasks), out \in ResumeOutcomes :
          \E couts \in CmdOuts : InternalResume(t, out, couts)
    \/ \E prefix \in Prefixes, fn \in HandlerFns : RegisterCommand(prefix, fn)
    \/ \E name \in PluginNames : \E ops \in SeqsUpTo(InitOps(name), MaxInitOps) :
          LoadPlugin(name, ops)
    \/ \E name \in PluginNames : UnloadPlugin(name)

SpecScan == InitScan /\ [][NextScan]_vars

\* C36: when _internal_handler goes on after a command it awaited, whatever
\* has been registered, loaded or unloaded meanwhile, it does not fail, and
\* every command that stands after the awaited one in the table and is
\* triggered by the text is called, up to the command it is suspended in
\* next
C36_ScanSurvivesTableChanges ==
    [][\A t \in 1..Len(tasks) :
          (/\ tasks[t].fn = INTERNAL
           /\ tasks[t].st = "waiting"
           /\ tasks'[t].st # "waiting" \/ tasks'[t].pos # tasks[t].pos
           /\ commands' = commands) =>
              /\ tasks'[t].st # "failed"
              /\ \A j \in (tasks[t].pos + 1)..Len(commands) :
                    (/\ Triggers(RoutedText(events[tasks[t].ev]), commands[j].prefix)
                     /\ tasks'[t].st = "done" \/ j <= tasks'[t].pos) =>
                        \E i \in (Len(log) + 1)..Len(log') :
                           /\ log'[i].what = "start"
                           /\ log'[i].sel = "command"
                           /\ log'[i].prefix = commands[j].prefix
                           /\ log'[i].fn = commands[j].fn]_vars

====
